---- MODULE Spec2Model ----
(***************************************************************************)
(* A model of the cloet model-evaluation engine: the validation utilities  *)
(* (checks.py), the shared exposure arithmetic (exposures.py) and the      *)
(* constructors of the dermal and inhalation model catalogs (dermal.py,    *)
(* inhalation.py), the reports on an instance (reports.py) and the choice  *)
(* of a free file name for them (checks.checkfile).                        *)
(*                                                                         *)
(* Numbers are exact rationals kept by sign and prime exponents; Python's  *)
(* None is the record NoneVal.  Strings are TLA+ strings, taken apart with *)
(* Head/Tail/SubSeq so that lower() and replace() are computed.            *)
(* One construction is a walk of the program counter pc through the        *)
(* statements of a model's __init__.                                       *)
(***************************************************************************)
EXTENDS Integers, Sequences, FiniteSets, TLC

VARIABLES pc, model, scenario, args, self, kwargs, exc, direct, prior, files, report

vars == <<pc, model, scenario, args, self, kwargs, exc, direct, prior, files, report>>

(***************************************************************************)
(* Bounds of the exploration.                                              *)
(***************************************************************************)
\* number of interior points tried inside each declared range [min, max]
GridSteps == 2
\* number of arguments of a call that differ from the reference call
MaxOverrides == 1
\* the same number, for the constructions that follow a remembered one
HistoryOverrides == 0
\* number of files that the working directory holds before a report is written
MaxFiles == 2

(***************************************************************************)
(* Python numbers, as exact rationals.  The products of the dose formulas  *)
(* leave the range of 32-bit integers, so a number is kept as              *)
(* its sign and the exponents of its prime factorisation: the rational     *)
(* 9/20 is [sgn |-> 1, exp |-> (2 :> -2) @@ (3 :> 2) @@ (5 :> -1)].  The   *)
(* representation is canonical, so equal numbers are equal records.        *)
(***************************************************************************)
Abs(x) == IF x < 0 THEN -x ELSE x

Sign(x) == IF x < 0 THEN -1 ELSE IF x = 0 THEN 0 ELSE 1

NoExp == [p \in {} |-> 0]

\* the exponents of f * g^k
Combine(f, g, k) ==
    LET v(p) == (IF p \in DOMAIN f THEN f[p] ELSE 0)
                  + k * (IF p \in DOMAIN g THEN g[p] ELSE 0)
    IN  [p \in {q \in DOMAIN f \cup DOMAIN g : v(q) # 0} |-> v(p)]

\* the factorisation of n >= 1 whose prime factors are all >= p
RECURSIVE Factor(_, _)
Factor(n, p) ==
    IF n = 1 THEN NoExp
    ELSE IF p * p > n THEN [q \in {n} |-> 1]
    ELSE IF n % p = 0 THEN Combine(Factor(n \div p, p), [q \in {p} |-> 1], 1)
    ELSE Factor(n, p + 1)

RECURSIVE Pow(_, _)
Pow(p, k) == IF k = 0 THEN 1 ELSE p * Pow(p, k - 1)

\* the product of p^(s * e[p]) over the primes whose exponent has sign s
RECURSIVE Part(_, _, _)
Part(e, s, ps) ==
    IF ps = {} THEN 1
    ELSE LET p == CHOOSE q \in ps : TRUE
         IN  (IF Sign(e[p]) = s THEN Pow(p, s * e[p]) ELSE 1) * Part(e, s, ps \ {p})

Numer(e) == Part(e, 1, DOMAIN e)

Denom(e) == Part(e, -1, DOMAIN e)

Zero == [sgn |-> 0, exp |-> NoExp]

Num(i) == IF i = 0 THEN Zero ELSE [sgn |-> Sign(i), exp |-> Factor(Abs(i), 2)]

\* Python's None, where a parameter may be None
NoneVal == [sgn |-> 0, exp |-> [p \in {0} |-> 0]]

IsNone(v) == 0 \in DOMAIN v.exp

IsZero(v) == v.sgn = 0

Neg(a) == [sgn |-> -a.sgn, exp |-> a.exp]

RMul(a, b) ==
    IF a.sgn = 0 \/ b.sgn = 0 THEN Zero
    ELSE [sgn |-> a.sgn * b.sgn, exp |-> Combine(a.exp, b.exp, 1)]

\* a / b for b # 0
RQuot(a, b) ==
    IF a.sgn = 0 THEN Zero
    ELSE [sgn |-> a.sgn * b.sgn, exp |-> Combine(a.exp, b.exp, -1)]

Rat(n, d) == RQuot(Num(n), Num(d))

\* a - b = b * (a/b - 1)
RSub(a, b) ==
    IF b.sgn = 0 THEN a
    ELSE IF a.sgn = 0 THEN Neg(b)
    ELSE LET e == Combine(a.exp, b.exp, -1)
         IN  RMul(b, RQuot(Num(a.sgn * b.sgn * Numer(e) - Denom(e)), Num(Denom(e))))

RAdd(a, b) == RSub(a, Neg(b))

\* |a| < |b| for a, b # 0
MagLt(a, b) == LET e == Combine(a.exp, b.exp, -1) IN Numer(e) < Denom(e)

RLt(a, b) ==
    IF a.sgn # b.sgn THEN a.sgn < b.sgn
    ELSE IF a.sgn = 0 THEN FALSE
    ELSE IF a.sgn = 1 THEN MagLt(a, b)
    ELSE MagLt(b, a)

\* min(a, b)
RMin(a, b) == IF RLt(b, a) THEN b ELSE a

\* a**3
RPow3(a) == RMul(RMul(a, a), a)

(***************************************************************************)
(* Exceptions and results of calls.  A call either returns a value or      *)
(* raises; exc.kind = "none" means it returned.                            *)
(***************************************************************************)
NoExc == [kind |-> "none", info |-> <<>>]

Return(v) == [exc |-> NoExc, value |-> v]

Raise(kind, info) == [exc |-> [kind |-> kind, info |-> info], value |-> NoneVal]

Raised(r) == r.exc.kind # "none"

\* the three exception classes of checks.py
BoundsException == "BoundsException"
ScenarioException == "ScenarioException"
RouteException == "RouteException"
\* Python's built-in failures
NameError == "NameError"
ZeroDivisionError == "ZeroDivisionError"
KeyError == "KeyError"
TypeError == "TypeError"
ValueError == "ValueError"

\* a / b
TrueDiv(a, b) ==
    IF IsZero(b) THEN Raise(ZeroDivisionError, <<"division by zero">>)
    ELSE Return(RQuot(a, b))

(***************************************************************************)
(* checks.py                                                               *)
(***************************************************************************)
\* the alternative of check_ul that forgets the upper bound
check_ul_lower_only(name, value, min_val, max_val) ==
    IF RLt(value, min_val)
    THEN Raise(BoundsException, <<name, min_val, max_val>>)
    ELSE Return(value)

check_ul(name, value, min_val, max_val) ==
    IF RLt(value, min_val) \/ RLt(max_val, value)
    THEN Raise(BoundsException, <<name, min_val, max_val>>)
    ELSE Return(value)

\* the message of check_l reads max_val, which check_l never binds
check_l(name, value, min_val) ==
    IF RLt(value, min_val)
    THEN Raise(NameError, <<"max_val">>)
    ELSE Return(value)

(***************************************************************************)
(* Dictionaries (kwargs, inputs, outputs): keys in insertion order and the *)
(* value of each key.                                                      *)
(***************************************************************************)
Range(seq) == {seq[i] : i \in 1..Len(seq)}

EmptyDict == [keys |-> <<>>, at |-> [x \in {} |-> NoneVal]]

Keys(dict) == Range(dict.keys)

Has(dict, key) == key \in Keys(dict)

Get(dict, key) == dict.at[key]

\* dict[key] = v
Put(dict, key, v) ==
    [keys |-> IF Has(dict, key) THEN dict.keys ELSE Append(dict.keys, key),
     at   |-> [x \in Keys(dict) \cup {key} |-> IF x = key THEN v ELSE dict.at[x]]]

\* {k: v for k, v in dict.items() if k in kept}
Filter(dict, kept) ==
    [keys |-> SelectSeq(dict.keys, LAMBDA x : x \in kept),
     at   |-> [x \in Keys(dict) \cap kept |-> dict.at[x]]]

\* dict.pop(key), the dictionary that is left
Pop(dict, key) == Filter(dict, Keys(dict) \ {key})

(***************************************************************************)
(* exposures.py                                                            *)
(***************************************************************************)
\* kwargs[n1] * kwargs[n2] * ...: the first name that is not a key raises
Subscripts(kw, names, v) ==
    IF \A i \in 1..Len(names) : Has(kw, names[i]) THEN Return(v)
    ELSE LET i == CHOOSE j \in 1..Len(names) :
                      /\ ~Has(kw, names[j])
                      /\ \A k \in 1..(j - 1) : Has(kw, names[k])
         IN  Raise(KeyError, <<names[i]>>)

\* the alternative that takes the liquid variant whether or not SQu is passed
potential_dose_rate_liquid_only(kw) ==
    IF Get(kw, "route") = "dermal"
    THEN Subscripts(kw, <<"S", "Qu", "Yderm", "FT">>,
             RMul(RMul(RMul(Get(kw, "S"), Get(kw, "Qu")),
                       Get(kw, "Yderm")), Get(kw, "FT")))
    ELSE IF Get(kw, "route") = "inhalation"
    THEN IF Has(kw, "Cm")
         THEN Subscripts(kw, <<"Cm", "b", "h">>,
                  RMul(RMul(Get(kw, "Cm"), Get(kw, "b")), Get(kw, "h")))
         ELSE Subscripts(kw, <<"EF", "AH", "Ys", "Sd">>,
                  RMul(RMul(RMul(Get(kw, "EF"), Get(kw, "AH")),
                            Get(kw, "Ys")), Get(kw, "Sd")))
    ELSE Raise(NameError, <<"RouteException">>)

potential_dose_rate(kw) ==
    IF Get(kw, "route") = "dermal"
    THEN IF Has(kw, "SQu")
         THEN Subscripts(kw, <<"SQu", "Yderm", "FT">>,
                  RMul(RMul(Get(kw, "SQu"), Get(kw, "Yderm")), Get(kw, "FT")))
         ELSE Subscripts(kw, <<"S", "Qu", "Yderm", "FT">>,
                  RMul(RMul(RMul(Get(kw, "S"), Get(kw, "Qu")),
                            Get(kw, "Yderm")), Get(kw, "FT")))
    ELSE IF Get(kw, "route") = "inhalation"
    THEN IF Has(kw, "Cm")
         THEN Subscripts(kw, <<"Cm", "b", "h">>,
                  RMul(RMul(Get(kw, "Cm"), Get(kw, "b")), Get(kw, "h")))
         ELSE Subscripts(kw, <<"EF", "AH", "Ys", "Sd">>,
                  RMul(RMul(RMul(Get(kw, "EF"), Get(kw, "AH")),
                            Get(kw, "Ys")), Get(kw, "Sd")))
    \* exposures.py never imports RouteException
    ELSE Raise(NameError, <<"RouteException">>)

workers_exposed(kw) == Return(RMul(Get(kw, "NWexp"), Get(kw, "NS")))

days_per_year == 365

\* the alternative that averages over AT whatever t is passed
daily_dose_over_AT(t, kw) ==
    TrueDiv(RMul(RMul(Get(kw, "PDR"), Get(kw, "ED")), Get(kw, "EY")),
            RMul(RMul(Get(kw, "BW"), Get(kw, "AT")), Num(days_per_year)))

daily_dose(t, kw) ==
    TrueDiv(RMul(RMul(Get(kw, "PDR"), Get(kw, "ED")), Get(kw, "EY")),
            RMul(RMul(Get(kw, "BW"), t), Num(days_per_year)))

acute_potential_dose_rate(kw) == TrueDiv(Get(kw, "PDR"), Get(kw, "BW"))

(***************************************************************************)
(* Python strings: str.lower() and str.replace(old, new).                  *)
(***************************************************************************)
UpperCase == "ABCDEFGHIJKLMNOPQRSTUVWXYZ"
LowerCase == "abcdefghijklmnopqrstuvwxyz"

LowerChar(c) ==
    IF \E i \in 1..Len(UpperCase) : SubSeq(UpperCase, i, i) = c
    THEN LET i == CHOOSE j \in 1..Len(UpperCase) : SubSeq(UpperCase, j, j) = c
         IN  SubSeq(LowerCase, i, i)
    ELSE c

RECURSIVE str_lower(_)
str_lower(s) == IF Len(s) = 0 THEN s ELSE LowerChar(Head(s)) \o str_lower(Tail(s))

\* left-to-right, non-overlapping; old is not empty
RECURSIVE str_replace(_, _, _)
str_replace(s, old, new) ==
    IF Len(s) < Len(old) THEN s
    ELSE IF SubSeq(s, 1, Len(old)) = old
         THEN new \o str_replace(SubSeq(s, Len(old) + 1, Len(s)), old, new)
         ELSE Head(s) \o str_replace(Tail(s), old, new)

\* str(scenario).lower().replace(", ", ",")
normalize(s) == str_replace(str_lower(s), ", ", ",")

(***************************************************************************)
(* The catalog: model classes, their family and their scenario keys.       *)
(***************************************************************************)
DermalModels ==
    {"one_hand_liquid_contact", "two_hand_liquid_contact",
     "two_hand_liquid_immersion", "two_hand_solids_contact",
     "two_hand_container_surface_contact", "user_defined_dermal"}

InhalationModels ==
    {"small_volume_solids_handling", "mass_balance", "pel_limiting_particulates",
     "pel_limiting_vapors", "total_pnor_pel_limiting",
     "respirable_pnor_pel_limiting", "automobile_oem_spray_coating",
     "automobile_refinish_spray_coating", "automobile_spray_coating",
     "uv_roll_coating", "user_defined_inhalation"}

Models == DermalModels \cup InhalationModels

\* self.route as the family constructor sets it
route_of(m) == IF m \in DermalModels THEN "dermal" ELSE "inhalation"

get_scenarios(m) ==
    CASE m \in {"one_hand_liquid_contact", "two_hand_liquid_contact",
                "two_hand_liquid_immersion", "user_defined_dermal"}
            -> <<"low", "high", "user">>
      [] m \in {"two_hand_solids_contact", "two_hand_container_surface_contact"}
            -> <<"high", "user">>
      [] m = "small_volume_solids_handling"
            -> <<"typical", "worst-case", "user">>
      [] m = "mass_balance"
            -> <<"indoor,typical", "indoor,worst-case",
                 "outdoor,typical", "outdoor,worst-case", "user">>
      [] m \in {"pel_limiting_particulates", "pel_limiting_vapors",
                "total_pnor_pel_limiting", "respirable_pnor_pel_limiting",
                "user_defined_inhalation"}
            -> <<"user">>
      [] m \in {"automobile_oem_spray_coating", "automobile_refinish_spray_coating"}
            -> <<"conventional,downdraft", "conventional,crossdraft",
                 "hvlp,downdraft", "hvlp,crossdraft", "user">>
      [] m = "automobile_spray_coating"
            -> <<"low,conventional,crossdraft", "high,conventional,crossdraft",
                 "low,conventional,downdraft", "high,conventional,downdraft",
                 "low,hvlp,crossdraft", "high,hvlp,crossdraft",
                 "low,hvlp,downdraft", "high,hvlp,downdraft">>
      [] m = "uv_roll_coating"
            -> <<"low end of range", "high end of range">>

\* the models whose membership test reads the raw argument, not self.scenario
RawScenarioModels ==
    {"pel_limiting_particulates", "pel_limiting_vapors", "total_pnor_pel_limiting",
     "respirable_pnor_pel_limiting", "user_defined_inhalation"}

\* the alternative membership test that accepts every string
scenario_accepted_any(m, raw, normalized) == TRUE

\* the condition under which __init__ goes past its "not in get_scenarios()" test
scenario_accepted(m, raw, normalized) ==
    IF m \in RawScenarioModels
    THEN raw \in Range(get_scenarios(m))
    ELSE normalized \in Range(get_scenarios(m))

(***************************************************************************)
(* Signatures: the default of every optional parameter.                    *)
(***************************************************************************)
\* ED=1, NWexp, NS=1, EY=40, BW=70, ATc=70, AT=40
CommonDefaults(NWexp) ==
    [ED |-> Num(1), NWexp |-> Num(NWexp), NS |-> Num(1), EY |-> Num(40),
     BW |-> Num(70), ATc |-> Num(70), AT |-> Num(40)]

Defaults(m) ==
    CASE m = "one_hand_liquid_contact"
            -> [S |-> Num(535), Qu |-> Rat(21, 10), FT |-> Num(1)] @@ CommonDefaults(1)
      [] m = "two_hand_liquid_contact"
            -> [S |-> Num(1070), Qu |-> Rat(21, 10), FT |-> Num(1)] @@ CommonDefaults(1)
      [] m = "two_hand_liquid_immersion"
            -> [S |-> Num(1070), Qu |-> Rat(103, 10), FT |-> Num(1)] @@ CommonDefaults(1)
      [] m = "two_hand_solids_contact"
            -> [SQu |-> Num(3100), FT |-> Num(1)] @@ CommonDefaults(1)
      [] m = "two_hand_container_surface_contact"
            -> [SQu |-> Num(1100), FT |-> Num(1)] @@ CommonDefaults(1)
      [] m = "user_defined_dermal"
            -> [S |-> Num(1070), Qu |-> Rat(21, 10), FT |-> Num(1)] @@ CommonDefaults(1)
      [] m = "small_volume_solids_handling"
            -> [EF |-> Rat(477, 10000), AH |-> Num(1), Sd |-> Num(1)] @@ CommonDefaults(1)
      [] m = "mass_balance"
            -> [T |-> Num(298), Q |-> Num(3000), k |-> Rat(1, 2), Vm |-> Rat(2445, 100),
                b |-> Rat(125, 100), h |-> Num(8), vz |-> Num(440)] @@ CommonDefaults(1)
      [] m = "pel_limiting_particulates"
            -> [KCk |-> Num(15), Ypel |-> Num(1), b |-> Rat(125, 100), h |-> Num(8)]
               @@ CommonDefaults(1)
      [] m = "pel_limiting_vapors"
            -> [Vm |-> Rat(2445, 100), b |-> Rat(125, 100), h |-> Num(8)]
               @@ CommonDefaults(1)
      [] m = "total_pnor_pel_limiting"
            -> [KCk |-> Num(15), b |-> Rat(125, 100), h |-> Num(8)] @@ CommonDefaults(1)
      [] m = "respirable_pnor_pel_limiting"
            -> [KCk |-> Num(5), b |-> Rat(125, 100), h |-> Num(8)] @@ CommonDefaults(1)
      [] m = "automobile_oem_spray_coating"
            -> [KCk |-> Rat(23, 10), Ys |-> NoneVal, Ysf |-> Rat(25, 100),
                b |-> Rat(125, 100), h |-> Num(8)] @@ CommonDefaults(17)
      [] m = "automobile_refinish_spray_coating"
            -> [Ys |-> NoneVal, KCk |-> Num(15), Ysf |-> Rat(25, 100),
                b |-> Rat(125, 100), h |-> Num(8)] @@ CommonDefaults(3)
      [] m = "automobile_spray_coating"
            -> [KCk |-> Rat(184, 10), b |-> Rat(125, 100), h |-> Num(8)]
               @@ CommonDefaults(3)
      [] m = "uv_roll_coating"
            -> [KCk |-> Rat(26, 100), Ys |-> NoneVal, Ysf |-> Rat(25, 100),
                b |-> Rat(125, 100), h |-> Num(8)] @@ CommonDefaults(1)
      [] m = "user_defined_inhalation"
            -> [Cm |-> NoneVal, Vm |-> Rat(2445, 100), Ys |-> Num(1),
                b |-> Rat(125, 100)] @@ CommonDefaults(1)

(***************************************************************************)
(* The calls explored.  The reference call of a model gives each required  *)
(* parameter one admissible value (that of tests.py for the weight         *)
(* fractions; small round values for the chemical properties, so that the  *)
(* comparisons of min() stay in the range of 32-bit integers)              *)
(* and every optional parameter its default; the explored calls differ     *)
(* from it in at most MaxOverrides arguments.                              *)
(***************************************************************************)
Required(m) ==
    CASE m = "one_hand_liquid_contact"             -> [Yderm |-> Rat(1, 10)]
      [] m = "two_hand_liquid_contact"             -> [Yderm |-> Rat(2, 10)]
      [] m = "two_hand_liquid_immersion"           -> [Yderm |-> Rat(3, 10)]
      [] m = "two_hand_solids_contact"             -> [Yderm |-> Rat(4, 10)]
      [] m = "two_hand_container_surface_contact"  -> [Yderm |-> Rat(5, 10)]
      [] m = "user_defined_dermal"                 -> [Yderm |-> Rat(6, 10)]
      [] m = "small_volume_solids_handling"        -> [Ys |-> Rat(1, 10)]
      [] m = "mass_balance"
            -> [G |-> Rat(1, 10000), MW |-> Num(92), VP |-> Rat(19, 25000),
                X |-> Rat(2, 10)]
      [] m = "pel_limiting_particulates"           -> [Ys |-> Rat(3, 10)]
      [] m = "pel_limiting_vapors"
            -> [Cvk |-> Num(5), VP |-> Rat(1, 10000), Ys |-> Rat(4, 10),
                MW |-> Num(20), VPpel |-> Rat(1, 1000), Ypel |-> Rat(6, 10),
                MWpel |-> Num(100), X |-> Rat(5, 10)]
      [] m = "total_pnor_pel_limiting"             -> [Ys |-> Rat(5, 10)]
      [] m = "respirable_pnor_pel_limiting"        -> [Ys |-> Rat(6, 10)]
      [] m = "automobile_oem_spray_coating"        -> [Ymist |-> Rat(7, 10)]
      [] m = "automobile_refinish_spray_coating"   -> [Ymist |-> Rat(8, 10)]
      [] m = "automobile_spray_coating"            -> [x \in {} |-> NoneVal]
      [] m = "uv_roll_coating"                     -> [Ymist |-> Rat(9, 10)]
      [] m = "user_defined_inhalation"
            -> [Cv |-> Rat(1, 2), MW |-> Num(92), h |-> Num(8)]

ReferenceArgs(m) == Required(m) @@ Defaults(m)

\* the default of the scenario parameter
DefaultScenario(m) ==
    CASE m \in DermalModels -> "high"
      [] m = "small_volume_solids_handling" -> "typical"
      [] m = "mass_balance" -> "indoor,typical"
      [] m \in {"pel_limiting_particulates", "pel_limiting_vapors",
                "total_pnor_pel_limiting", "respirable_pnor_pel_limiting",
                "user_defined_inhalation"} -> "user"
      [] m = "automobile_oem_spray_coating" -> "conventional,downdraft"
      [] m = "automobile_refinish_spray_coating" -> "conventional,crossdraft"
      [] m = "automobile_spray_coating" -> "high,conventional,crossdraft"
      [] m = "uv_roll_coating" -> "high end of range"

\* the admissible range the documentation declares for a parameter
RangeParams == {"ED", "Yderm", "Ys", "AH", "Sd", "Ypel", "X", "b", "h",
                "Ymist", "Ysf", "k"}
LowerParams == {"EY", "BW", "ATc", "FT", "Vm", "Cm", "Q", "Cv", "MW"}

MinOf(p) == Num(0)

MaxOf(p) ==
    CASE p = "ED" -> Num(365)
      [] p = "AH" -> Num(54)
      [] p = "Sd" -> Num(3)
      [] p = "b"  -> Rat(79, 10)
      [] p = "h"  -> Num(24)
      [] OTHER    -> Num(1)

\* the distance of the out-of-range values from the range
Eps == Rat(1, 100)

\* the values tried for parameter p whose reference value is ref
ValuesOf(p, ref) ==
    IF p \in RangeParams
    THEN {RSub(MinOf(p), Eps), MinOf(p), MaxOf(p), RAdd(MaxOf(p), Eps)}
         \cup {RAdd(MinOf(p), RMul(Rat(i, GridSteps), RSub(MaxOf(p), MinOf(p)))) :
                   i \in 1..(GridSteps - 1)}
    ELSE IF p \in LowerParams
    THEN {Num(-1), Num(0), IF IsNone(ref) THEN Rat(1, 2) ELSE RMul(Num(2), ref)}
    ELSE {Num(0), RMul(Num(2), ref)}

\* a with at most one argument replaced by one of its tried values
OneOverride(m, a) ==
    UNION {{[a EXCEPT ![p] = v] : v \in ValuesOf(p, ReferenceArgs(m)[p])} :
              p \in DOMAIN ReferenceArgs(m)}

RECURSIVE ArgSets(_, _)
ArgSets(m, n) ==
    IF n = 0 THEN {ReferenceArgs(m)}
    ELSE LET prev == ArgSets(m, n - 1)
         IN  prev \cup UNION {OneOverride(m, a) : a \in prev}

\* the strings tried as scenario argument of model m
UpperCaseKey(key) ==
    CASE key = "user"                       -> "USER"
      [] key = "low"                        -> "Low"
      [] key = "high"                       -> "HIGH"
      [] key = "typical"                    -> "Typical"
      [] key = "worst-case"                 -> "Worst-Case"
      [] key = "indoor,typical"             -> "Indoor, Typical"
      [] key = "outdoor,worst-case"         -> "OUTDOOR, WORST-CASE"
      [] key = "hvlp,downdraft"             -> "HVLP, Downdraft"
      [] key = "low,hvlp,crossdraft"        -> "Low, HVLP, Crossdraft"
      [] key = "high end of range"          -> "High End of Range"
      [] OTHER                              -> key

ScenarioArgs(m) ==
    Range(get_scenarios(m))
      \cup {UpperCaseKey(key) : key \in Range(get_scenarios(m))}
      \cup {"user", "medium", "indoor,  typical"}

(***************************************************************************)
(* Statements "kwargs[key] = <expression>" of a constructor, in program    *)
(* order.  The first one whose expression raises ends the construction.    *)
(***************************************************************************)
Assign(key, v) == <<[key |-> key, res |-> Return(v)]>>

Checked(key, res) == <<[key |-> key, res |-> res]>>

\* the branch of an if/elif chain over self.scenario
When(cond, stmts) == IF cond THEN stmts ELSE <<>>

RECURSIVE ExecStmts(_, _)
ExecStmts(kw, stmts) ==
    IF Len(stmts) = 0 THEN [exc |-> NoExc, key |-> "", kwargs |-> kw]
    ELSE IF Raised(Head(stmts).res)
         THEN [exc |-> Head(stmts).res.exc, key |-> Head(stmts).key, kwargs |-> kw]
         ELSE ExecStmts(Put(kw, Head(stmts).key, Head(stmts).res.value), Tail(stmts))

(***************************************************************************)
(* dermal.py / inhalation.py: the family constructors.                     *)
(***************************************************************************)
\* the alternative in which the skip list is one list shared by all
\* constructions, which an earlier construction has extended in place
DefaultSkips_shared ==
    <<"self", "model_name", "equations", "scenario", "route", "skips">>
      \o (IF "self" \in DOMAIN prior /\ "inputs" \in DOMAIN prior.self
          THEN prior.self["inputs"].keys ELSE <<>>)

DefaultSkips == <<"self", "model_name", "equations", "scenario", "route", "skips">>

\* the alternative in which the dermal family keeps the caller's AT
dermal_model_init_caller_AT(a) ==
    Checked("ED", check_ul("ED", a.ED, Num(0), Num(365)))
      \o Assign("NWexp", a.NWexp)
      \o Assign("NS", a.NS)
      \o Checked("EY", check_l("EY", a.EY, Num(0)))
      \o Checked("BW", check_l("BW", a.BW, Num(0)))
      \o Checked("ATc", check_l("ATc", a.ATc, Num(0)))
      \o Assign("AT", a.AT)
      \o Assign("skips", DefaultSkips)

dermal_model_init(a) ==
    Checked("ED", check_ul("ED", a.ED, Num(0), Num(365)))
      \o Assign("NWexp", a.NWexp)
      \o Assign("NS", a.NS)
      \o Checked("EY", check_l("EY", a.EY, Num(0)))
      \o Checked("BW", check_l("BW", a.BW, Num(0)))
      \o Checked("ATc", check_l("ATc", a.ATc, Num(0)))
      \o Assign("AT", a.EY)
      \o Assign("skips", DefaultSkips)

inhalation_model_init(a) ==
    Checked("ED", check_ul("ED", a.ED, Num(0), Num(365)))
      \o Assign("NWexp", a.NWexp)
      \o Assign("NS", a.NS)
      \o Checked("EY", check_l("EY", a.EY, Num(0)))
      \o Checked("BW", check_l("BW", a.BW, Num(0)))
      \o Checked("ATc", check_l("ATc", a.ATc, Num(0)))
      \o Assign("AT", a.AT)
      \o Assign("skips", DefaultSkips)

\* the alternative in which the family constructor stores its arguments
\* without checking them
family_init_unchecked(m, a) ==
    Assign("ED", a.ED) \o Assign("NWexp", a.NWexp) \o Assign("NS", a.NS)
      \o Assign("EY", a.EY) \o Assign("BW", a.BW) \o Assign("ATc", a.ATc)
      \o Assign("AT", IF m \in DermalModels THEN a.EY ELSE a.AT)
      \o Assign("skips", DefaultSkips)

family_init(m, a) ==
    IF m \in DermalModels THEN dermal_model_init(a) ELSE inhalation_model_init(a)

\* {k: v for k, v in kwargs.items() if k not in kwargs['skips']}
model_args(kw) == Filter(kw, Keys(kw) \ Range(Get(kw, "skips")))

(***************************************************************************)
(* dermal.py: the statements between the scenario test and self.inputs.    *)
(***************************************************************************)
FT_Yderm(a) ==
    Checked("FT", check_l("FT", a.FT, Num(0)))
      \o Checked("Yderm", check_ul("Yderm", a.Yderm, Num(0), Num(1)))

\* the alternative with the presets of 'low' and 'high' exchanged
one_hand_liquid_contact_params_swapped(a, scen, route) ==
    Assign("route", route)
      \o Assign("S", a.S)
      \o When(scen = "low", Assign("Qu", Rat(21, 10)))
      \o When(scen = "high", Assign("Qu", Rat(7, 10)))
      \o When(scen = "user", Assign("Qu", a.Qu))
      \o FT_Yderm(a)

one_hand_liquid_contact_params(a, scen, route) ==
    Assign("route", route)
      \o Assign("S", a.S)
      \o When(scen = "low", Assign("Qu", Rat(7, 10)))
      \o When(scen = "high", Assign("Qu", Rat(21, 10)))
      \o When(scen = "user", Assign("Qu", a.Qu))
      \o FT_Yderm(a)

two_hand_liquid_contact_params(a, scen, route) ==
    Assign("route", route)
      \o Assign("S", a.S)
      \o When(scen = "low", Assign("Qu", Rat(7, 10)))
      \o When(scen = "high", Assign("Qu", Rat(21, 10)))
      \o When(scen = "user", Assign("Qu", a.Qu))
      \o FT_Yderm(a)

two_hand_liquid_immersion_params(a, scen, route) ==
    Assign("route", route)
      \o Assign("S", a.S)
      \o When(scen = "low", Assign("Qu", Rat(13, 10)))
      \o When(scen = "high", Assign("Qu", Rat(103, 10)))
      \o When(scen = "user", Assign("Qu", a.Qu))
      \o FT_Yderm(a)

two_hand_solids_contact_params(a, scen, route) ==
    Assign("route", route)
      \o When(scen = "high", Assign("SQu", Num(3100)))
      \o When(scen = "user", Assign("SQu", a.SQu))
      \o FT_Yderm(a)

two_hand_container_surface_contact_params(a, scen, route) ==
    Assign("route", route)
      \o When(scen = "high", Assign("SQu", Num(1100)))
      \o When(scen = "user", Assign("SQu", a.SQu))
      \o FT_Yderm(a)

user_defined_dermal_params(a, scen, route) ==
    Assign("route", route)
      \o When(scen = "low", Assign("S", Num(535)) \o Assign("Qu", Rat(7, 10)))
      \o When(scen = "high", Assign("S", Num(1070)) \o Assign("Qu", Rat(21, 10)))
      \o When(scen = "user", Assign("S", a.S) \o Assign("Qu", a.Qu))
      \o FT_Yderm(a)

(***************************************************************************)
(* inhalation.py: the statements between the scenario test and self.inputs.*)
(***************************************************************************)
b_h(a) ==
    Checked("b", check_ul("b", a.b, Num(0), Rat(79, 10)))
      \o Checked("h", check_ul("h", a.h, Num(0), Num(24)))

\* the alternative in which the caller's EF replaces the preset of 'typical'
small_volume_solids_handling_params_caller_EF(a, scen, route) ==
    Assign("route", route)
      \o Checked("AH", check_ul("AH", a.AH, Num(0), Num(54)))
      \o Checked("Ys", check_ul("Ys", a.Ys, Num(0), Num(1)))
      \o Checked("Sd", check_ul("Sd", a.Sd, Num(0), Num(3)))
      \o When(scen \in {"typical", "user"}, Assign("EF", a.EF))
      \o When(scen = "worst-case", Assign("EF", Rat(161, 1000)))

small_volume_solids_handling_params(a, scen, route) ==
    Assign("route", route)
      \o Checked("AH", check_ul("AH", a.AH, Num(0), Num(54)))
      \o Checked("Ys", check_ul("Ys", a.Ys, Num(0), Num(1)))
      \o Checked("Sd", check_ul("Sd", a.Sd, Num(0), Num(3)))
      \o When(scen = "typical", Assign("EF", Rat(477, 10000)))
      \o When(scen = "worst-case", Assign("EF", Rat(161, 1000)))
      \o When(scen = "user", Assign("EF", a.EF))

\* the alternative that forgets the exponent
outdoor_worst_case_Q_linear(vz) ==
    RMul(Num(26400), RQuot(RMul(Num(60), vz), Num(5280)))

\* 26400 * (60 * vz / 5280)**3
outdoor_worst_case_Q(vz) ==
    RMul(Num(26400), RPow3(RQuot(RMul(Num(60), vz), Num(5280))))

mass_balance_params(a, scen, route) ==
    Assign("route", route)
      \o Assign("T", a.T) \o Assign("G", a.G) \o Assign("MW", a.MW)
      \o Assign("X", a.X) \o Assign("VP", a.VP) \o Assign("Vm", a.Vm)
      \o Assign("b", a.b) \o Assign("h", a.h)
      \o Assign("EY", a.EY) \o Assign("BW", a.BW)
      \o Assign("ATc", a.ATc) \o Assign("AT", a.AT)
      \o When(scen = "indoor,typical",
              Assign("Q", Num(3000)) \o Assign("k", Rat(5, 10)))
      \o When(scen = "indoor,worst-case",
              Assign("Q", Num(500)) \o Assign("k", Rat(1, 10)))
      \o When(scen = "outdoor,typical",
              Assign("Q", Num(237600)) \o Assign("k", Rat(5, 10)))
      \o When(scen = "outdoor,worst-case",
              Assign("Q", outdoor_worst_case_Q(a.vz)) \o Assign("k", Rat(1, 10)))
      \o When(scen = "user", Assign("Q", a.Q) \o Assign("k", a.k))

pel_limiting_particulates_params(a, scen, route) ==
    Assign("route", route)
      \o Assign("KCk", a.KCk)
      \o Checked("Ys", check_ul("Ys", a.Ys, Num(0), Num(1)))
      \o Checked("Ypel", check_ul("Ypel", a.Ypel, Num(0), Num(1)))
      \o b_h(a)

pel_limiting_vapors_params(a, scen, route) ==
    Assign("route", route)
      \o Assign("Cvk", a.Cvk)
      \o Assign("VP", a.VP)
      \o Checked("Ys", check_ul("Ys", a.Ys, Num(0), Num(1)))
      \o Assign("MW", a.MW)
      \o Assign("VPpel", a.VPpel)
      \o Assign("Ypel", RSub(Num(1), a.Ys))
      \o Assign("MWpel", a.MWpel)
      \o Checked("X", check_ul("X", a.X, Num(0), Num(1)))
      \o Checked("Vm", check_l("Vm", a.Vm, Num(0)))
      \o b_h(a)

total_pnor_pel_limiting_params(a, scen, route) ==
    Assign("route", route)
      \o Assign("KCk", a.KCk)
      \o Checked("Ys", check_ul("Ys", a.Ys, Num(0), Num(1)))
      \o b_h(a)

respirable_pnor_pel_limiting_params(a, scen, route) ==
    Assign("route", route)
      \o Assign("KCk", a.KCk)
      \o Checked("Ys", check_ul("Ys", a.Ys, Num(0), Num(1)))
      \o b_h(a)

\* the alternative that takes a Ys of 0 for a Ys that was not passed
solids_fraction_falsy(a) ==
    IF IsNone(a.Ys) \/ IsZero(a.Ys)
    THEN LET q == TrueDiv(a.Ymist, a.Ysf)
         IN  IF Raised(q) THEN q
             ELSE check_ul("Ys", RMin(q.value, Num(1)), Num(0), Num(1))
    ELSE check_ul("Ys", a.Ys, Num(0), Num(1))

\* Ys == None: min(Ymist / Ysf, 1), else the Ys passed; both through check_ul
solids_fraction(a) ==
    IF IsNone(a.Ys)
    THEN LET q == TrueDiv(a.Ymist, a.Ysf)
         IN  IF Raised(q) THEN q
             ELSE check_ul("Ys", RMin(q.value, Num(1)), Num(0), Num(1))
    ELSE check_ul("Ys", a.Ys, Num(0), Num(1))

Ymist_Ysf_Ys(a) ==
    Checked("Ymist", check_ul("Ymist", a.Ymist, Num(0), Num(1)))
      \o Checked("Ysf", check_ul("Ysf", a.Ysf, Num(0), Num(1)))
      \o Checked("Ys", solids_fraction(a))

automobile_oem_spray_coating_params(a, scen, route) ==
    Assign("route", route)
      \o When(scen = "conventional,downdraft", Assign("KCk", Rat(23, 10)))
      \o When(scen = "conventional,crossdraft", Assign("KCk", Num(15)))
      \o When(scen = "hvlp,downdraft", Assign("KCk", Rat(19, 10)))
      \o When(scen = "hvlp,crossdraft", Assign("KCk", Num(15)))
      \o When(scen = "user", Assign("KCk", a.KCk))
      \o Ymist_Ysf_Ys(a)
      \o b_h(a)

automobile_refinish_spray_coating_params(a, scen, route) ==
    Assign("route", route)
      \o When(scen = "conventional,downdraft", Assign("KCk", Rat(23, 10)))
      \o When(scen = "conventional,crossdraft", Assign("KCk", Num(15)))
      \o When(scen = "hvlp,downdraft", Assign("KCk", Rat(19, 10)))
      \o When(scen = "hvlp,crossdraft", Assign("KCk", Num(15)))
      \o When(scen = "user", Assign("KCk", a.KCk))
      \o Ymist_Ysf_Ys(a)
      \o b_h(a)

automobile_spray_coating_params(a, scen, route) ==
    Assign("route", route)
      \o When(scen = "low,conventional,crossdraft", Assign("KCk", Rat(5, 100)))
      \o When(scen = "high,conventional,crossdraft", Assign("KCk", Rat(184, 10)))
      \o When(scen = "low,conventional,downdraft", Assign("KCk", Rat(1, 100)))
      \o When(scen = "high,conventional,downdraft", Assign("KCk", Rat(37, 10)))
      \o When(scen = "low,hvlp,crossdraft", Assign("KCk", Num(1)))
      \o When(scen = "high,hvlp,crossdraft", Assign("KCk", Rat(52, 10)))
      \o When(scen = "low,hvlp,downdraft", Assign("KCk", Rat(6, 10)))
      \o When(scen = "high,hvlp,downdraft", Assign("KCk", Rat(14, 10)))
      \o When(scen = "user", Assign("KCk", a.KCk))
      \o Assign("b", a.b)
      \o Assign("h", a.h)

uv_roll_coating_params(a, scen, route) ==
    Assign("route", route)
      \o When(scen = "low end of range", Assign("KCk", Rat(4, 100)))
      \o When(scen = "high end of range", Assign("KCk", Rat(26, 100)))
      \o When(scen = "user", Assign("KCk", a.KCk))
      \o Ymist_Ysf_Ys(a)
      \o b_h(a)

\* Cm == None: Cv * MW / Vm * Ys, else the Cm passed; both through check_l
mass_concentration(a) ==
    IF IsNone(a.Cm)
    THEN LET q == TrueDiv(RMul(a.Cv, a.MW), a.Vm)
         IN  IF Raised(q) THEN q
             ELSE check_l("Cm", RMul(q.value, a.Ys), Num(0))
    ELSE check_l("Cm", a.Cm, Num(0))

user_defined_inhalation_params(a, scen, route) ==
    Assign("route", route)
      \o Assign("Cv", a.Cv)
      \o Assign("MW", a.MW)
      \o Checked("Vm", check_l("Vm", a.Vm, Num(0)))
      \o Checked("Ys", check_ul("Ys", a.Ys, Num(0), Num(1)))
      \o Checked("Cm", mass_concentration(a))
      \o b_h(a)

model_params(m, a, scen, route) ==
    CASE m = "one_hand_liquid_contact" -> one_hand_liquid_contact_params(a, scen, route)
      [] m = "two_hand_liquid_contact" -> two_hand_liquid_contact_params(a, scen, route)
      [] m = "two_hand_liquid_immersion"
            -> two_hand_liquid_immersion_params(a, scen, route)
      [] m = "two_hand_solids_contact" -> two_hand_solids_contact_params(a, scen, route)
      [] m = "two_hand_container_surface_contact"
            -> two_hand_container_surface_contact_params(a, scen, route)
      [] m = "user_defined_dermal" -> user_defined_dermal_params(a, scen, route)
      [] m = "small_volume_solids_handling"
            -> small_volume_solids_handling_params(a, scen, route)
      [] m = "mass_balance" -> mass_balance_params(a, scen, route)
      [] m = "pel_limiting_particulates"
            -> pel_limiting_particulates_params(a, scen, route)
      [] m = "pel_limiting_vapors" -> pel_limiting_vapors_params(a, scen, route)
      [] m = "total_pnor_pel_limiting" -> total_pnor_pel_limiting_params(a, scen, route)
      [] m = "respirable_pnor_pel_limiting"
            -> respirable_pnor_pel_limiting_params(a, scen, route)
      [] m = "automobile_oem_spray_coating"
            -> automobile_oem_spray_coating_params(a, scen, route)
      [] m = "automobile_refinish_spray_coating"
            -> automobile_refinish_spray_coating_params(a, scen, route)
      [] m = "automobile_spray_coating"
            -> automobile_spray_coating_params(a, scen, route)
      [] m = "uv_roll_coating" -> uv_roll_coating_params(a, scen, route)
      [] m = "user_defined_inhalation"
            -> user_defined_inhalation_params(a, scen, route)

(***************************************************************************)
(* The statements after self.inputs: intermediate concentrations and the   *)
(* shared arithmetic, each reading the kwargs built so far.                *)
(***************************************************************************)
\* f(**kwargs) binds the named parameters of f or fails with TypeError
Bound(kw, names, res) ==
    IF names \subseteq Keys(kw) THEN res
    ELSE Raise(TypeError, <<"missing required argument">>)

\* 1000000 * X * VP / 760
saturation(kw) ==
    RQuot(RMul(RMul(Num(1000000), Get(kw, "X")), Get(kw, "VP")), Num(760))

\* the alternative without the saturation cap
mass_balance_Cv_uncapped(kw) ==
    Bound(kw, {"T", "G", "MW", "Q", "k", "X", "VP"},
          TrueDiv(RMul(RMul(Num(170000), Get(kw, "T")), Get(kw, "G")),
                  RMul(RMul(Get(kw, "MW"), Get(kw, "Q")), Get(kw, "k"))))

mass_balance_Cv(kw) ==
    Bound(kw, {"T", "G", "MW", "Q", "k", "X", "VP"},
          LET gen == TrueDiv(RMul(RMul(Num(170000), Get(kw, "T")), Get(kw, "G")),
                             RMul(RMul(Get(kw, "MW"), Get(kw, "Q")), Get(kw, "k")))
          IN  IF Raised(gen) THEN gen ELSE Return(RMin(gen.value, saturation(kw))))

\* Cv * MW / Vm
Cv_MW_Vm(kw) ==
    Bound(kw, {"Cv", "MW", "Vm"},
          TrueDiv(RMul(Get(kw, "Cv"), Get(kw, "MW")), Get(kw, "Vm")))

pel_limiting_vapors_Cv(kw) ==
    Bound(kw, {"Cvk", "VP", "Ys", "MW", "VPpel", "Ypel", "MWpel", "X"},
          LET num == TrueDiv(RMul(Get(kw, "VP"), Get(kw, "Ys")), Get(kw, "MW"))
              den == TrueDiv(RMul(Get(kw, "VPpel"), Get(kw, "Ypel")), Get(kw, "MWpel"))
          IN  IF Raised(num) THEN num
              ELSE IF Raised(den) THEN den
              ELSE LET q == TrueDiv(RMul(Get(kw, "Cvk"), num.value), den.value)
                   IN  IF Raised(q) THEN q
                       ELSE Return(RMin(q.value, saturation(kw))))

\* KCk * Ys / Ypel
pel_limiting_particulates_Cm(kw) ==
    Bound(kw, {"KCk", "Ys", "Ypel"},
          TrueDiv(RMul(Get(kw, "KCk"), Get(kw, "Ys")), Get(kw, "Ypel")))

\* KCk * Ys
KCk_Ys(kw) ==
    Bound(kw, {"KCk", "Ys"}, Return(RMul(Get(kw, "KCk"), Get(kw, "Ys"))))

automobile_spray_coating_Cm(kw) == Bound(kw, {"KCk"}, Return(Get(kw, "KCk")))

model_Cv(m, kw) ==
    IF m = "mass_balance" THEN mass_balance_Cv(kw) ELSE pel_limiting_vapors_Cv(kw)

model_Cm(m, kw) ==
    CASE m \in {"mass_balance", "pel_limiting_vapors"} -> Cv_MW_Vm(kw)
      [] m = "pel_limiting_particulates" -> pel_limiting_particulates_Cm(kw)
      [] m = "automobile_spray_coating" -> automobile_spray_coating_Cm(kw)
      [] OTHER -> KCk_Ys(kw)

\* the keys assigned between self.inputs and self.outputs, in program order
SharedSteps == <<"PDR", "NW", "LADD", "ADD", "APDR">>

\* the alternative in which the constructor stops before its last assignment
OutputSteps_without_APDR(m) ==
    CASE m \in {"mass_balance", "pel_limiting_vapors"}
            -> <<"Cv", "Cm", "PDR", "NW", "LADD", "ADD">>
      [] m \in {"small_volume_solids_handling", "user_defined_inhalation"}
              \cup DermalModels -> <<"PDR", "NW", "LADD", "ADD">>
      [] OTHER -> <<"Cm", "PDR", "NW", "LADD", "ADD">>

OutputSteps(m) ==
    CASE m \in {"mass_balance", "pel_limiting_vapors"} -> <<"Cv", "Cm">> \o SharedSteps
      [] m \in {"pel_limiting_particulates", "total_pnor_pel_limiting",
                "respirable_pnor_pel_limiting", "automobile_oem_spray_coating",
                "automobile_refinish_spray_coating", "automobile_spray_coating",
                "uv_roll_coating"} -> <<"Cm">> \o SharedSteps
      [] OTHER -> SharedSteps

OutputStep(m, key, kw) ==
    CASE key = "Cv"   -> model_Cv(m, kw)
      [] key = "Cm"   -> model_Cm(m, kw)
      [] key = "PDR"  -> potential_dose_rate(kw)
      [] key = "NW"   -> workers_exposed(kw)
      [] key = "LADD" -> daily_dose(Get(kw, "ATc"), kw)
      [] key = "ADD"  -> daily_dose(Get(kw, "AT"), kw)
      [] key = "APDR" -> acute_potential_dose_rate(kw)

RECURSIVE ExecOutputs(_, _, _)
ExecOutputs(m, kw, keys) ==
    IF Len(keys) = 0 THEN [exc |-> NoExc, key |-> "", kwargs |-> kw]
    ELSE LET r == OutputStep(m, Head(keys), kw)
         IN  IF Raised(r) THEN [exc |-> r.exc, key |-> Head(keys), kwargs |-> kw]
             ELSE ExecOutputs(m, Put(kw, Head(keys), r.value), Tail(keys))

\* the alternative that names every dose rate as the dermal models do
dose_rate_name_dermal(m) == "Dexp"

\* the display name of the potential dose rate
dose_rate_name(m) == IF m \in DermalModels THEN "Dexp" ELSE "I"

\* self.equations, by the names its lines define
equations(m) ==
    CASE m \in DermalModels -> <<"Dexp", "NW", "LADD", "ADD", "APDR">>
      [] m = "small_volume_solids_handling" -> <<"I", "NW", "LADD", "ADD", "APDR">>
      [] m \in {"mass_balance", "pel_limiting_vapors"}
            -> <<"Cv", "Cm", "I", "NW", "LADD", "ADD", "APDR">>
      [] OTHER -> <<"Cm", "I", "NW", "LADD", "ADD", "APDR">>

\* self.model_name
model_name(m) ==
    CASE m = "one_hand_liquid_contact" -> "EPA-OPPT 1-Hand Dermal Contact with Liquid"
      [] m = "two_hand_liquid_contact" -> "EPA-OPPT 2-Hand Dermal Contact with Liquid"
      [] m = "two_hand_liquid_immersion" -> "EPA-OPPT 2-Hand Dermal Immersion with Liquid"
      [] m = "two_hand_solids_contact" -> "EPA-OPPT 2-Hand Dermal Contact with Solids"
      [] m = "two_hand_container_surface_contact"
            -> "EPA-OPPT 2-Hand Dermal Contact with Container Surfaces"
      [] m = "user_defined_dermal" -> "User-defined Dermal"
      [] m = "small_volume_solids_handling" -> "EPA-OPPT Small Volume Solids Handling"
      [] m = "mass_balance" -> "EPA-OPPT Mass Balance"
      [] m = "pel_limiting_particulates"
            -> "OSHA PEL-limiting Model for Substance-specific Particulates"
      [] m = "pel_limiting_vapors"
            -> "OSHA PEL-limiting Model for Substance-specific Vapors"
      [] m = "total_pnor_pel_limiting" -> "OSHA Total PNOR PEL-limiting"
      [] m = "respirable_pnor_pel_limiting" -> "OSHA Respirable PNOR PEL-limiting"
      [] m = "automobile_oem_spray_coating" -> "EPA-OPPT automobile OEM Spray Coating"
      [] m = "automobile_refinish_spray_coating"
            -> "EPA-OPPT Automobile Refinish Spray Coating"
      [] m = "automobile_spray_coating" -> "EPA-OPPT Automobile Spray Coating"
      [] m = "uv_roll_coating" -> "EPA-OPPT UV Roll Coating"
      [] m = "user_defined_inhalation" -> "User-defined Inhalation"

(***************************************************************************)
(* reports.py: the unit table and the text report.                         *)
(***************************************************************************)
\* the dictionary of __units
units ==
    [ADD |-> "mg/kg-day", I |-> "mg/day", Dexp |-> "mg/day", NW |-> "workers",
     LADD |-> "mg/kg-day", APDR |-> "mg/kg-day", NS |-> "sites",
     Sd |-> "shift/workder-day", EF |-> "mg/kg", AH |-> "kg/worker-shift",
     Ys |-> "dimensionless", NWexp |-> "worker/site", ED |-> "days/site-yr",
     EY |-> "years", BW |-> "kg", ATc |-> "years", AT |-> "years", S |-> "cm^2",
     Qu |-> "mg/cm^2-event", Yderm |-> "dimensionless", FT |-> "events/workers-day",
     Cv |-> "ppm", Cm |-> "mg/m^3", T |-> "K", G |-> "g/s", MW |-> "g/mol",
     Q |-> "ft^3/min", k |-> "dimensionless", X |-> "dimensionless", VP |-> "torr",
     Vm |-> "L/mol", b |-> "m^3/hr", h |-> "hrs/day", KCk |-> "mg/m^3",
     Ypel |-> "dimensionless", Cvk |-> "ppm", VPpel |-> "torr", MWpel |-> "g/mol",
     Ymist |-> "dimensionless", Ysf |-> "dimensionless"]

\* return units[key]
units_lookup(key) ==
    IF key \in DOMAIN units THEN Return(units[key]) ELSE Raise(KeyError, <<key>>)

\* report['equations'] of json_report: the lines of self.equations split at
\* " = "; a line without " = " is its own left and right side
json_report_equations(m) ==
    LET d == IF m \in DermalModels THEN "Dexp" ELSE "I"
        dose ==
            <<[lhs |-> "NW", rhs |-> "NWexp * NS"],
              [lhs |-> "LADD",
               rhs |-> "(" \o d \o " * ED * EY) / (BW * ATc * days_per_year)"],
              [lhs |-> "ADD",
               rhs |-> "(" \o d \o " * ED * EY) / (BW * AT * days_per_year)"],
              [lhs |-> "APDR", rhs |-> d \o " / BW"]>>
        intake == <<[lhs |-> "I", rhs |-> "Cm * b * h"]>>
    IN  CASE m \in DermalModels
                -> <<[lhs |-> "Dexp", rhs |-> "S * Qu * Yderm * FT"]>> \o dose
          [] m = "small_volume_solids_handling"
                -> <<[lhs |-> "I", rhs |-> "EF * AH * Ys * Sd"]>> \o dose
          [] m = "mass_balance"
                -> <<[lhs |-> "Cv",
                      rhs |-> "min(((170000 * T * G) / (MW * Q * k)),(1000000 * X * VP / 760))"],
                     [lhs |-> "Cm", rhs |-> "Cv * MW / Vm"]>> \o intake \o dose
          [] m = "pel_limiting_particulates"
                -> <<[lhs |-> "Cm", rhs |-> "KCk * Ys / Ypel"]>> \o intake \o dose
          [] m = "pel_limiting_vapors"
                -> <<[lhs |-> "Cv",
                      rhs |-> "min(Cvk * (VP * Ys / MW) / (Vppel * Ypel / Mwpel),"],
                     [lhs |-> "(1000000 * X * VP / 760))",
                      rhs |-> "(1000000 * X * VP / 760))"],
                     [lhs |-> "Cm", rhs |-> "Cv * MW / Vm"],
                     [lhs |-> "I", rhs |-> "Cm x b * h"]>> \o dose
          [] m = "automobile_spray_coating"
                -> <<[lhs |-> "Cm", rhs |-> "KCk"]>> \o intake \o dose
          [] m = "user_defined_inhalation"
                -> <<[lhs |-> "Cm", rhs |-> "Cv * MW / Vm * Ys"]>> \o intake \o dose
          [] OTHER -> <<[lhs |-> "Cm", rhs |-> "KCk * Ys"]>> \o intake \o dose

\* unit lookups of the lines of a dictionary, in order: the first unknown
\* name raises
RECURSIVE unit_lines(_)
unit_lines(keys) ==
    IF Len(keys) = 0 THEN Return(<<>>)
    ELSE LET u == units_lookup(Head(keys))
         IN  IF Raised(u) THEN u
             ELSE LET rest == unit_lines(Tail(keys))
                  IN  IF Raised(rest) THEN rest
                      ELSE Return(<<[key |-> Head(keys), units |-> u.value]>>
                                    \o rest.value)

\* text_report(model): the header, one line per equation, per input and per
\* output.  A line is padded to the table width with "{space:>{sw}}", which
\* raises ValueError for a negative sw; the sw of an equation line is
\* 85 - 2*k_len - len(rhs).  The sw of a value line, 84 - 2*k_len -
\* len(str(value)) - len(units), is positive whenever the equation lines
\* passed, a number taking at most 24 characters.
text_report(inst) ==
    LET eqs   == json_report_equations(inst.model)
        names == {eqs[i].lhs : i \in 1..Len(eqs)}
                     \cup Keys(inst.inputs) \cup Keys(inst.outputs)
        k_len == CHOOSE n \in {Len(x) : x \in names} : \A y \in names : Len(y) <= n
    IN  IF \/ 71 - Len(inst.route) < 0
           \/ 71 - Len(inst.model_name) < 0
           \/ 68 - Len(inst.scenario) < 0
           \/ \E i \in 1..Len(eqs) : 85 - 2 * k_len - Len(eqs[i].rhs) < 0
        THEN Raise(ValueError, <<"Sign not allowed in string format specifier">>)
        ELSE unit_lines(inst.inputs.keys \o inst.outputs.keys)

(***************************************************************************)
(* checks.py and reports.py: file names.  A path is a string; the working  *)
(* directory is the only directory, and files holds the names of its       *)
(* entries.                                                                *)
(***************************************************************************)
\* os.getcwd()
getcwd == "/w"

\* the position of the last c in s, 0 if there is none
rfind(s, c) ==
    LET at == {i \in 1..Len(s) : SubSeq(s, i, i) = c}
    IN  IF at = {} THEN 0 ELSE CHOOSE i \in at : \A j \in at : j <= i

\* os.path.join(a, b)
path_join(a, b) ==
    IF Len(b) > 0 /\ Head(b) = "/" THEN b
    ELSE IF Len(a) = 0 \/ SubSeq(a, Len(a), Len(a)) = "/" THEN a \o b
    ELSE a \o "/" \o b

\* os.path.dirname(p): the part before the last "/", the root kept
path_dirname(p) ==
    LET i == rfind(p, "/")
    IN  IF i = 0 THEN "" ELSE IF i = 1 THEN "/" ELSE SubSeq(p, 1, i - 1)

\* os.path.basename(p)
path_basename(p) == SubSeq(p, rfind(p, "/") + 1, Len(p))

\* os.path.expanduser(p)
path_expanduser(p) ==
    IF Len(p) > 0 /\ Head(p) = "~" /\ (Len(p) = 1 \/ SubSeq(p, 2, 2) = "/")
    THEN "/home/user" \o Tail(p) ELSE p

\* os.path.splitext(p): the extension starts at the last dot of the last
\* component, unless only dots precede it there
path_splitext(p) ==
    LET sep == rfind(p, "/")
        dot == rfind(p, ".")
    IN  IF dot > sep /\ \E i \in (sep + 1)..(dot - 1) : SubSeq(p, i, i) # "."
        THEN [root |-> SubSeq(p, 1, dot - 1), ext |-> SubSeq(p, dot, Len(p))]
        ELSE [root |-> p, ext |-> ""]

\* os.path.exists(p)
path_exists(p, entries) ==
    LET ap == path_join(getcwd, p)
    IN  path_dirname(ap) = getcwd /\ path_basename(ap) \in entries

\* os.listdir(dir)
listdir(dir, entries) == IF dir = getcwd THEN entries ELSE {}

\* str(n) of a natural number
RECURSIVE str_int(_)
str_int(n) ==
    IF n < 10 THEN SubSeq("0123456789", n + 1, n + 1)
    ELSE str_int(n \div 10) \o SubSeq("0123456789", (n % 10) + 1, (n % 10) + 1)

\* the alternative that numbers the name after its extension
candidate_name_after_ext(fname, index, ext) ==
    fname \o ext \o "_" \o str_int(index)

\* "{}_{}{}".format(fname, index, ext)
candidate_name(fname, index, ext) == fname \o "_" \o str_int(index) \o ext

\* date_stamp(prefix, suffix) on the day hoy, a string YYYY-MM-DD
date_stamp(prefix, suffix, hoy) ==
    prefix \o "_" \o SubSeq(hoy, 6, 7) \o SubSeq(hoy, 9, 10) \o SubSeq(hoy, 1, 4)
      \o "." \o suffix

\* the file name that file_report makes up when none is passed
default_filename(inst, hoy) ==
    date_stamp(str_replace(str_lower(inst.model_name), " ", "_") \o "_" \o inst.scenario,
               "txt", hoy)

(***************************************************************************)
(* The state machine: one construction at a time.                          *)
(*   pc        where the constructor stands                                *)
(*   model     the class being constructed                                 *)
(*   scenario  the scenario argument as passed                             *)
(*   args      the numeric arguments as passed                             *)
(*   self      the attributes set on the instance so far                   *)
(*   kwargs    the constructor's local dictionary                          *)
(*   exc       the exception that ended the construction, if any           *)
(*   direct    a call of exposures.potential_dose_rate made by the caller  *)
(*             itself, with its result                                     *)
(*   prior     an earlier construction the caller still holds: its call   *)
(*             and what it returned or raised                              *)
(*   files     the names of the entries of the working directory           *)
(*   report    a call of text_report, file_report or checkfile in          *)
(*             progress: its arguments, its locals and its result          *)
(***************************************************************************)
NoCall == "none"

NoArgs == [x \in {} |-> NoneVal]

NoSelf == [x \in {} |-> ""]

Quiet == [kind |-> "none", info |-> <<>>, at |-> "", key |-> ""]

Failure(r, where) == [kind |-> r.exc.kind, info |-> r.exc.info, at |-> where, key |-> r.key]

SetAttr(obj, name, v) ==
    [x \in DOMAIN obj \cup {name} |-> IF x = name THEN v ELSE obj[x]]

NoDirect == [route |-> "", kw |-> EmptyDict, res |-> Return(NoneVal)]

NoPrior == [model |-> NoCall]

NoReport ==
    [pc |-> "idle", caller |-> "", file_name |-> "", check_file |-> FALSE,
     fname |-> "", ext |-> "", dir |-> "", candidate |-> "", index |-> 0,
     ls |-> {}, path |-> "", before |-> {}, res |-> Return(NoneVal)]

\* the instance that the finished construction returned
Instance ==
    [model |-> model, route |-> self["route"], model_name |-> self["model_name"],
     scenario |-> self["scenario"], inputs |-> self["inputs"],
     outputs |-> self["outputs"]]

Init ==
    /\ pc = "idle"
    /\ model = NoCall
    /\ scenario = ""
    /\ args = NoArgs
    /\ self = NoSelf
    /\ kwargs = EmptyDict
    /\ exc = Quiet
    /\ direct = NoDirect
    /\ prior = NoPrior
    /\ files = {}
    /\ report = NoReport

\* a caller invokes the constructor of a model class
Call ==
    /\ pc = "idle"
    /\ direct = NoDirect
    /\ \E m \in Models :
         \E s \in ScenarioArgs(m) :
           \E a \in ArgSets(m, MaxOverrides) :
             /\ model' = m
             /\ scenario' = s
             /\ args' = a
    /\ pc' = "family_init"
    /\ UNCHANGED <<self, kwargs, exc, direct, prior, files, report>>

\* kwargs = dermal_model.__init__(self, ...) / inhalation_model.__init__(self, ...)
FamilyInit ==
    /\ pc = "family_init"
    /\ LET r == ExecStmts(EmptyDict, family_init(model, args))
       IN  /\ self' = SetAttr(self, "route", route_of(model))
           /\ IF Raised(r)
              THEN /\ pc' = "raised"
                   /\ exc' = Failure(r, "family_init")
                   /\ UNCHANGED kwargs
              ELSE /\ pc' = "normalize"
                   /\ kwargs' = r.kwargs
                   /\ UNCHANGED exc
    /\ UNCHANGED <<model, scenario, args, direct, prior, files, report>>

\* self.model_name, self.equations and self.scenario are set
Normalize ==
    /\ pc = "normalize"
    /\ self' = SetAttr(SetAttr(SetAttr(self, "model_name", model_name(model)),
                               "equations", equations(model)),
                       "scenario", normalize(scenario))
    /\ pc' = "scenario_test"
    /\ UNCHANGED <<model, scenario, args, kwargs, exc, direct, prior, files, report>>

\* if ... not in self.get_scenarios(): raise ScenarioException(...)
\* neither dermal.py nor inhalation.py binds the name ScenarioException
ScenarioTest ==
    /\ pc = "scenario_test"
    /\ IF scenario_accepted(model, scenario, self["scenario"])
       THEN /\ pc' = "params"
            /\ UNCHANGED exc
       ELSE /\ pc' = "raised"
            /\ exc' = [kind |-> NameError, info |-> <<"ScenarioException">>,
                       at |-> "scenario_test", key |-> "scenario"]
    /\ UNCHANGED <<model, scenario, args, self, kwargs, direct, prior, files, report>>

\* scenario presets and model-specific checks fill kwargs
Params ==
    /\ pc = "params"
    /\ LET r == ExecStmts(kwargs, model_params(model, args, self["scenario"], self["route"]))
       IN  /\ kwargs' = r.kwargs
           /\ IF Raised(r)
              THEN /\ pc' = "raised"
                   /\ exc' = Failure(r, "params")
              ELSE /\ pc' = "freeze"
                   /\ UNCHANGED exc
    /\ UNCHANGED <<model, scenario, args, self, direct, prior, files, report>>

\* the alternative that leaves the skip list as the family constructor made it
Freeze_keeping_skips ==
    /\ pc = "freeze"
    /\ self' = SetAttr(self, "inputs", model_args(kwargs))
    /\ pc' = "compute"
    /\ UNCHANGED <<model, scenario, args, kwargs, exc, direct, prior, files, report>>

\* self.inputs = self.model_args(kwargs)
\* kwargs['skips'] = kwargs['skips'] + list(kwargs.keys())
Freeze ==
    /\ pc = "freeze"
    /\ self' = SetAttr(self, "inputs", model_args(kwargs))
    /\ kwargs' = Put(kwargs, "skips", Get(kwargs, "skips") \o kwargs.keys)
    /\ pc' = "compute"
    /\ UNCHANGED <<model, scenario, args, exc, direct, prior, files, report>>

\* kwargs['Cv'] ... kwargs['APDR']
Compute ==
    /\ pc = "compute"
    /\ LET r == ExecOutputs(model, kwargs, OutputSteps(model))
       IN  /\ kwargs' = r.kwargs
           /\ IF Raised(r)
              THEN /\ pc' = "raised"
                   /\ exc' = Failure(r, "compute")
              ELSE /\ pc' = "collect"
                   /\ UNCHANGED exc
    /\ UNCHANGED <<model, scenario, args, self, direct, prior, files, report>>

\* self.outputs = self.model_args(kwargs)
Collect ==
    /\ pc = "collect"
    /\ self' = SetAttr(self, "outputs", model_args(kwargs))
    /\ pc' = "rename"
    /\ UNCHANGED <<model, scenario, args, kwargs, exc, direct, prior, files, report>>

\* self.outputs['Dexp'] = self.outputs.pop('PDR'); return
Rename ==
    /\ pc = "rename"
    /\ self' = [self EXCEPT !["outputs"] =
                   Put(Pop(@, "PDR"), dose_rate_name(model), Get(@, "PDR"))]
    /\ pc' = "done"
    /\ UNCHANGED <<model, scenario, args, kwargs, exc, direct, prior, files, report>>

\* the caller is done with the instance or with the exception
Discard ==
    /\ pc \in {"done", "raised"}
    /\ report = NoReport
    /\ pc' = "idle"
    /\ model' = NoCall
    /\ scenario' = ""
    /\ args' = NoArgs
    /\ self' = NoSelf
    /\ kwargs' = EmptyDict
    /\ exc' = Quiet
    /\ UNCHANGED <<direct, prior, files, report>>

\* the caller calls exposures.potential_dose_rate(route, **kw) itself
Routes == {"dermal", "inhalation", "oral", "Dermal"}

DoseRateValues ==
    [S |-> Num(535), Qu |-> Rat(21, 10), SQu |-> Num(3100), Yderm |-> Rat(1, 10),
     FT |-> Num(2), Cm |-> Num(15), b |-> Rat(5, 4), h |-> Num(8),
     EF |-> Rat(477, 10000), AH |-> Num(2), Ys |-> Rat(1, 2), Sd |-> Num(3)]

DoseRateArgs ==
    {[keys |-> ks, at |-> [x \in Range(ks) |-> DoseRateValues[x]]] :
        ks \in {<<"S", "Qu", "Yderm", "FT">>, <<"SQu", "Yderm", "FT">>,
                <<"S", "Qu", "SQu", "Yderm", "FT">>, <<"Cm", "b", "h">>,
                <<"EF", "AH", "Ys", "Sd">>,
                <<"Cm", "b", "h", "EF", "AH", "Ys", "Sd">>, <<>>}}

DoseRateCall ==
    /\ pc = "idle"
    /\ direct = NoDirect
    /\ \E r \in Routes :
         \E kw \in DoseRateArgs :
           direct' = [route |-> r, kw |-> kw,
                      res |-> potential_dose_rate(Put(kw, "route", r))]
    /\ UNCHANGED <<pc, model, scenario, args, self, kwargs, exc, prior, files, report>>

\* the caller is done with the value or the exception of that call
DoseRateDone ==
    /\ pc = "idle"
    /\ direct # NoDirect
    /\ direct' = NoDirect
    /\ UNCHANGED <<pc, model, scenario, args, self, kwargs, exc, prior, files, report>>

\* the caller asks for reports.text_report(instance)
TextReport ==
    /\ pc = "done"
    /\ report = NoReport
    /\ report' = [NoReport EXCEPT !.pc = "text", !.caller = "client",
                                  !.res = text_report(Instance)]
    /\ UNCHANGED <<pc, model, scenario, args, self, kwargs, exc, direct, prior, files>>

\* the caller is done with the text, the file name or the exception
ReportDone ==
    /\ report.pc \in {"text", "written", "failed"}
       \/ (report.pc = "returned" /\ report.caller = "client")
    /\ report' = NoReport
    /\ UNCHANGED <<pc, model, scenario, args, self, kwargs, exc, direct, prior, files>>

Next ==
    \/ DoseRateCall
    \/ DoseRateDone
    \/ Call
    \/ FamilyInit
    \/ Normalize
    \/ ScenarioTest
    \/ Params
    \/ Freeze
    \/ Compute
    \/ Collect
    \/ Rename
    \/ TextReport
    \/ ReportDone
    \/ Discard

Spec == Init /\ [][Next]_vars

(***************************************************************************)
(* Constructions that follow one another while the caller still holds the  *)
(* outcome of an earlier one.                                              *)
(***************************************************************************)
\* a caller invokes a constructor again
Recall ==
    /\ pc = "idle"
    /\ \E m \in Models :
         \E s \in ScenarioArgs(m) :
           \E a \in ArgSets(m, HistoryOverrides) :
             /\ model' = m
             /\ scenario' = s
             /\ args' = a
    /\ pc' = "family_init"
    /\ UNCHANGED <<self, kwargs, exc, direct, prior, files, report>>

\* the caller keeps the outcome of the reference call of a model
Remember ==
    /\ pc \in {"done", "raised"}
    /\ report = NoReport
    /\ args = ReferenceArgs(model)
    /\ scenario = DefaultScenario(model)
    /\ prior' = [model |-> model, scenario |-> scenario, args |-> args,
                 pc |-> pc, self |-> self, exc |-> exc]
    /\ pc' = "idle"
    /\ model' = NoCall
    /\ scenario' = ""
    /\ args' = NoArgs
    /\ self' = NoSelf
    /\ kwargs' = EmptyDict
    /\ exc' = Quiet
    /\ UNCHANGED <<direct, files, report>>

NextHistory ==
    \/ Recall
    \/ FamilyInit
    \/ Normalize
    \/ ScenarioTest
    \/ Params
    \/ Freeze
    \/ Compute
    \/ Collect
    \/ Rename
    \/ Discard
    \/ Remember

SpecHistory == Init /\ [][NextHistory]_vars

(***************************************************************************)
(* Reports written to the working directory: checks.checkfile and          *)
(* reports.file_report, on the instances of the reference calls.           *)
(***************************************************************************)
\* the file names that callers pass
FileNames == {"out.txt", "out"}

\* the days on which a report is written, as str(datetime.date.today())
Dates == {"2026-11-04"}

\* a caller constructs a model by its reference call, in an empty directory
Construct ==
    /\ pc = "idle"
    /\ report = NoReport
    /\ files = {}
    /\ \E m \in Models :
         /\ model' = m
         /\ scenario' = DefaultScenario(m)
         /\ args' = ReferenceArgs(m)
    /\ pc' = "family_init"
    /\ UNCHANGED <<self, kwargs, exc, direct, prior, files, report>>

\* other programs change the working directory: they leave files under the
\* names that callers use, numbered or not, or remove what is there
Listing ==
    /\ report = NoReport
    /\ pc = "idle" \/ (pc = "done" /\ files = {})
    /\ LET made == IF pc = "done"
                   THEN {default_filename(Instance, d) : d \in Dates}
                   ELSE {}
           names == FileNames \cup made
       IN  \E L \in SUBSET (names \cup {candidate_name(path_splitext(n).root, 1,
                                                       path_splitext(n).ext) :
                                           n \in names}) :
             /\ L # files
             /\ Cardinality(L) <= MaxFiles
             /\ files' = L
    /\ UNCHANGED <<pc, model, scenario, args, self, kwargs, exc, direct, prior, report>>

\* a caller calls checks.checkfile(file_name) itself
CheckfileCall ==
    /\ pc = "idle"
    /\ report = NoReport
    /\ \E name \in FileNames :
         report' = [NoReport EXCEPT !.pc = "checkfile", !.caller = "client",
                                    !.file_name = name, !.before = files]
    /\ UNCHANGED <<pc, model, scenario, args, self, kwargs, exc, direct, prior, files>>

\* checkfile up to its loop: a free name is returned at once, otherwise the
\* name is split and the directory is listed
Checkfile ==
    /\ report.pc = "checkfile"
    /\ LET cwf   == path_join(getcwd, report.file_name)
           split == path_splitext(path_expanduser(cwf))
           dir   == path_dirname(split.root)
           fname == path_basename(split.root)
       IN  IF ~path_exists(cwf, files)
           THEN report' = [report EXCEPT !.pc = "returned", !.path = cwf]
           ELSE report' = [report EXCEPT !.pc = "while", !.dir = dir,
                                         !.fname = fname, !.ext = split.ext,
                                         !.candidate = fname \o split.ext,
                                         !.index = 1,
                                         !.ls = listdir(dir, files)]
    /\ UNCHANGED <<pc, model, scenario, args, self, kwargs, exc, direct, prior, files>>

\* while candidate in ls: candidate = "{}_{}{}".format(...); index += 1
\* return os.path.join(dir, candidate)
CheckfileWhile ==
    /\ report.pc = "while"
    /\ IF report.candidate \in report.ls
       THEN report' = [report EXCEPT
                         !.candidate = candidate_name(report.fname, report.index,
                                                      report.ext),
                         !.index = report.index + 1]
       ELSE report' = [report EXCEPT
                         !.pc = "returned",
                         !.path = path_join(report.dir, report.candidate)]
    /\ UNCHANGED <<pc, model, scenario, args, self, kwargs, exc, direct, prior, files>>

\* the caller calls reports.file_report(instance, filename, check_file);
\* without a filename one is made from the model name, the scenario and the day
FileReportCall ==
    /\ pc = "done"
    /\ report = NoReport
    /\ Cardinality(files) <= MaxFiles
    /\ \E filename \in FileNames \cup {""} :
         \E check_file \in BOOLEAN :
           \E hoy \in Dates :
             report' = [NoReport EXCEPT
                          !.pc = IF check_file THEN "checkfile" ELSE "write",
                          !.caller = "file_report",
                          !.file_name = IF filename = ""
                                        THEN default_filename(Instance, hoy)
                                        ELSE filename,
                          !.path = IF filename = ""
                                   THEN default_filename(Instance, hoy)
                                   ELSE filename,
                          !.check_file = check_file,
                          !.before = files]
    /\ UNCHANGED <<pc, model, scenario, args, self, kwargs, exc, direct, prior, files>>

\* report = text_report(model); with open(filename, 'w') as f: f.write(report)
FileReportWrite ==
    /\ report.caller = "file_report"
    /\ report.pc \in {"write", "returned"}
    /\ LET text == text_report(Instance)
           ap   == path_join(getcwd, report.path)
       IN  IF Raised(text)
           THEN /\ report' = [report EXCEPT !.pc = "failed", !.res = text]
                /\ UNCHANGED files
           ELSE /\ report' = [report EXCEPT !.pc = "written",
                                            !.res = Return(report.path)]
                /\ files' = IF path_dirname(ap) = getcwd
                            THEN files \cup {path_basename(ap)} ELSE files
    /\ UNCHANGED <<pc, model, scenario, args, self, kwargs, exc, direct, prior>>

NextFiles ==
    \/ Construct
    \/ FamilyInit
    \/ Normalize
    \/ ScenarioTest
    \/ Params
    \/ Freeze
    \/ Compute
    \/ Collect
    \/ Rename
    \/ Discard
    \/ Listing
    \/ CheckfileCall
    \/ Checkfile
    \/ CheckfileWhile
    \/ FileReportCall
    \/ FileReportWrite
    \/ ReportDone

SpecFiles == Init /\ [][NextFiles]_vars

(***************************************************************************)
(* Properties.                                                             *)
(***************************************************************************)
\* the construction has ended: an instance was returned or an exception left
Ended == pc \in {"done", "raised"}

\* min <= v <= max
Within(v, lo, hi) == ~RLt(v, lo) /\ ~RLt(hi, v)

\* the arguments that differ from the reference call of the model
Overridden == {p \in DOMAIN args : args[p] # ReferenceArgs(model)[p]}

\* C1: every instance that construction returns stores a scenario that is
\* the normalised argument and is a member of the model's get_scenarios();
\* no instance is returned for any other scenario.
C1_ScenarioMember ==
    pc = "done" =>
        /\ self["scenario"] = normalize(scenario)
        /\ \E i \in 1..Len(get_scenarios(model)) :
               get_scenarios(model)[i] = self["scenario"]

\* an instance built from a scenario argument that needed normalising
C1_Witness == pc = "done" /\ self["scenario"] # scenario

\* C2: a construction that is rejected by the scenario test fails with
\* ScenarioException carrying the invalid value and the valid keys.
C2_ScenarioError ==
    (pc = "raised" /\ exc.at = "scenario_test") =>
        /\ exc.kind = ScenarioException
        /\ scenario \in Range(exc.info)
        /\ get_scenarios(model) \in Range(exc.info)

\* C3: a scenario whose lower-cased, comma-spacing-normalised form is listed
\* in get_scenarios() is never rejected by the scenario test.
C3_CaseInsensitive ==
    (Ended /\ normalize(scenario) \in Range(get_scenarios(model))) =>
        exc.at # "scenario_test"

\* C4: with every listed scenario key, in-range required parameters and all
\* other parameters at their defaults, construction returns an instance with
\* a route, the key as scenario, and populated inputs and outputs.
C4_EveryKeyConstructs ==
    (/\ Ended
     /\ scenario \in Range(get_scenarios(model))
     /\ Overridden \subseteq (DOMAIN Required(model) \cap RangeParams)
     /\ \A p \in Overridden : Within(args[p], MinOf(p), MaxOf(p)))
    => /\ pc = "done"
       /\ self["route"] \in {"dermal", "inhalation"}
       /\ self["scenario"] = scenario
       /\ Keys(self["inputs"]) # {}
       /\ Keys(self["outputs"]) # {}

\* C5: the bounded-range check passes its value on unchanged when
\* min <= value <= max and otherwise raises BoundsException naming the
\* parameter and the range: ED is rejected by the family constructor exactly
\* when it is outside [0, 365], and a dermal constructor that reaches its
\* Yderm check rejects Yderm exactly when it is outside [0, 1]; the bounds
\* themselves pass, the values 0.01 beyond them fail, and a rejected
\* construction has no inputs and no outputs.
C5_BoundedRange ==
    /\ pc \notin {"idle", "family_init"} =>
         IF Within(args.ED, Num(0), Num(365))
         THEN ~(exc.at = "family_init" /\ exc.key = "ED")
              /\ (Has(kwargs, "ED") => Get(kwargs, "ED") = args.ED)
         ELSE /\ pc = "raised"
              /\ exc.kind = BoundsException
              /\ exc.info = <<"ED", Num(0), Num(365)>>
              /\ DOMAIN self \cap {"inputs", "outputs"} = {}
    /\ pc \notin {"idle", "family_init"} =>
         /\ args.ED \in {Num(0), Num(365)} => exc.key # "ED"
         /\ args.ED \in {Rat(-1, 100), Rat(36501, 100)} => exc.key = "ED"
    /\ (model \in DermalModels /\ (Has(kwargs, "FT") \/ exc.key = "Yderm")) =>
         IF Within(args.Yderm, Num(0), Num(1))
         THEN /\ exc.key # "Yderm"
              /\ Has(kwargs, "Yderm")
              /\ Get(kwargs, "Yderm") = args.Yderm
         ELSE /\ pc = "raised"
              /\ exc.kind = BoundsException
              /\ exc.info = <<"Yderm", Num(0), Num(1)>>
              /\ DOMAIN self \cap {"inputs", "outputs"} = {}
    /\ (model \in DermalModels /\ Has(kwargs, "FT")) =>
         /\ args.Yderm \in {Num(0), Num(1)} => exc.key # "Yderm"
         /\ args.Yderm \in {Rat(-1, 100), Rat(101, 100)} => exc.key = "Yderm"

\* a dermal construction rejected for a Yderm just above its maximum
C5_Witness ==
    /\ pc = "raised"
    /\ model \in DermalModels
    /\ exc.key = "Yderm"
    /\ args.Yderm = Rat(101, 100)

\* C6: a construction with a negative EY, BW or ATc (ED being in range), or a
\* dermal construction that reaches its FT check with a negative FT, fails
\* with BoundsException.
C6_LowerBound ==
    /\ (/\ Ended
        /\ Within(args.ED, Num(0), Num(365))
        /\ \E p \in {"EY", "BW", "ATc"} : RLt(args[p], Num(0)))
       => (pc = "raised" /\ exc.kind = BoundsException)
    /\ (/\ Ended
        /\ model \in DermalModels
        /\ exc.at \notin {"family_init", "scenario_test"}
        /\ RLt(args.FT, Num(0)))
       => (pc = "raised" /\ exc.kind = BoundsException)

\* C7: a construction returns an instance or fails with BoundsException,
\* ScenarioException or RouteException, and with nothing else.
C7_ThreeErrorKinds ==
    exc.kind \in {"none", BoundsException, ScenarioException, RouteException}

\* C8: with a listed scenario key and one parameter exactly at a bound of
\* its declared range (all others as in the reference call), construction
\* returns an instance.
C8_BoundaryAccepted ==
    LET lower == {"EY", "BW", "ATc"}
                   \cup (IF model \in DermalModels THEN {"FT"} ELSE {})
                   \cup (IF model \in {"mass_balance", "pel_limiting_vapors",
                                       "user_defined_inhalation"}
                         THEN {"Vm"} ELSE {})
                   \cup (IF model = "user_defined_inhalation"
                         THEN {"Cm", "Cv", "MW"} ELSE {})
        ranged == RangeParams \ (IF model = "mass_balance" THEN {"X"} ELSE {})
    IN  (/\ Ended
         /\ scenario \in Range(get_scenarios(model))
         /\ \A p \in Overridden :
               \/ p \in lower /\ args[p] = Num(0)
               \/ p \in ranged /\ args[p] \in {MinOf(p), MaxOf(p)})
        => pc = "done"

\* C9: a construction that gets past the family constructor and the scenario
\* test with b outside [0, 7.9] or h outside [0, 24] (or, for mass_balance
\* under 'user', k outside [0, 1] or Q not above 0) fails with
\* BoundsException among its parameter checks and has no outputs.
C9_InputsChecked ==
    (/\ Ended
     /\ exc.at \notin {"family_init", "scenario_test"}
     /\ \/ "b" \in DOMAIN args /\ ~Within(args.b, Num(0), Rat(79, 10))
        \/ "h" \in DOMAIN args /\ ~Within(args.h, Num(0), Num(24))
        \/ /\ model = "mass_balance"
           /\ self["scenario"] = "user"
           /\ (~Within(args.k, Num(0), Num(1)) \/ ~RLt(Num(0), args.Q)))
    => /\ pc = "raised"
       /\ exc.at = "params"
       /\ exc.kind = BoundsException
       /\ "outputs" \notin DOMAIN self

\* C10: the inputs of every returned instance satisfy EY <= AT <= ATc.
C10_AveragingTime ==
    pc = "done" =>
        /\ ~RLt(Get(self["inputs"], "AT"), Get(self["inputs"], "EY"))
        /\ ~RLt(Get(self["inputs"], "ATc"), Get(self["inputs"], "AT"))

\* C11: whenever the instance has outputs they are the complete result set:
\* NW, LADD, ADD, APDR, the Cv and Cm the model derives, and the dose rate
\* (under the route's name, or still under PDR in the one step between the
\* assignment of self.outputs and the renaming that ends the constructor);
\* a construction that failed has no outputs at all.
C11_OutputsAllOrNothing ==
    /\ pc = "raised" => "outputs" \notin DOMAIN self
    /\ "outputs" \in DOMAIN self =>
         LET ks == Keys(self["outputs"])
             derived ==
                 IF model \in {"mass_balance", "pel_limiting_vapors"}
                 THEN {"Cv", "Cm"}
                 ELSE IF model \in DermalModels
                               \cup {"small_volume_solids_handling",
                                     "user_defined_inhalation"}
                      THEN {}
                      ELSE {"Cm"}
         IN  /\ {"NW", "LADD", "ADD", "APDR"} \cup derived \subseteq ks
             /\ IF pc = "rename" THEN "PDR" \in ks
                ELSE (IF model \in DermalModels THEN "Dexp" ELSE "I") \in ks
             /\ \A k \in ks : ~IsNone(Get(self["outputs"], k))

\* a construction that fails in the middle of the arithmetic, after the
\* dose rate and NW were computed
C11_Witness ==
    /\ pc = "raised"
    /\ exc.at = "compute"
    /\ "inputs" \in DOMAIN self
    /\ Has(kwargs, "NW")

\* C12: the outputs of every returned instance hold the potential dose rate
\* under Dexp for a dermal model and under I for an inhalation model, with
\* the value computed as PDR, and hold no key PDR.
C12_DoseRateName ==
    pc = "done" =>
        LET outputs == self["outputs"]
            named == IF self["route"] = "dermal" THEN "Dexp" ELSE "I"
            other == IF self["route"] = "dermal" THEN "I" ELSE "Dexp"
        IN  /\ Has(outputs, named)
            /\ Get(outputs, named) = Get(kwargs, "PDR")
            /\ ~Has(outputs, "PDR")
            /\ ~Has(outputs, other)

\* a returned inhalation instance whose dose rate is not zero
C12_Witness ==
    /\ pc = "done"
    /\ model \in InhalationModels
    /\ Has(self["outputs"], "I")
    /\ ~IsZero(Get(self["outputs"], "I"))

\* the parameters that the arithmetic of a returned instance has read
FedParams ==
    {"ED", "EY", "BW", "ATc", "AT", "NWexp", "NS"}
      \cup (IF model \in {"two_hand_solids_contact",
                          "two_hand_container_surface_contact"}
            THEN {"SQu", "Yderm", "FT"}
            ELSE IF model \in DermalModels THEN {"S", "Qu", "Yderm", "FT"}
            ELSE IF model = "small_volume_solids_handling"
            THEN {"EF", "AH", "Ys", "Sd"}
            ELSE {"b", "h"})
      \cup (CASE model = "mass_balance"
                    -> {"T", "G", "MW", "Q", "k", "X", "VP", "Vm"}
              [] model = "pel_limiting_vapors"
                    -> {"Cvk", "VP", "Ys", "MW", "VPpel", "Ypel", "MWpel", "X", "Vm"}
              [] model = "pel_limiting_particulates" -> {"KCk", "Ys", "Ypel"}
              [] model \in {"total_pnor_pel_limiting",
                            "respirable_pnor_pel_limiting"} -> {"KCk", "Ys"}
              [] model \in {"automobile_oem_spray_coating",
                            "automobile_refinish_spray_coating",
                            "uv_roll_coating"} -> {"KCk", "Ys", "Ymist", "Ysf"}
              [] model = "automobile_spray_coating" -> {"KCk"}
              [] model = "user_defined_inhalation" -> {"Cm"}
              [] OTHER -> {})
      \cup (IF model = "mass_balance" /\ self["scenario"] = "outdoor,worst-case"
            THEN {"vz"} ELSE {})

\* C13: the inputs of every returned instance contain every parameter
\* that fed the calculation (the wind speed vz too when mass_balance derives
\* Q from it) and none of the bookkeeping fields.
C13_InputsCoverCalculation ==
    pc = "done" =>
        /\ FedParams \subseteq Keys(self["inputs"])
        /\ Keys(self["inputs"]) \cap Range(DefaultSkips) = {}

\* C14: one_hand_liquid_contact with Yderm = 0.1, scenario 'high' and every
\* other parameter at its default returns inputs Qu = 2.1 and S = 535 and
\* outputs Dexp = 112.35, NW = 1, APDR = 112.35 / 70 and
\* LADD = (112.35 * 1 * 40) / (70 * 70 * 365).
C14_GoldenValues ==
    (/\ pc = "done"
     /\ model = "one_hand_liquid_contact"
     /\ scenario = "high"
     /\ args = [Yderm |-> Rat(1, 10)] @@ Defaults(model))
    => /\ Get(self["inputs"], "Qu") = Rat(21, 10)
       /\ Get(self["inputs"], "S") = Num(535)
       /\ Get(self["outputs"], "Dexp") = Rat(11235, 100)
       /\ Get(self["outputs"], "NW") = Num(1)
       /\ Get(self["outputs"], "APDR") = Rat(11235, 7000)
       /\ Get(self["outputs"], "LADD") = Rat(449400, 178850000)

\* that construction has returned
C14_Witness ==
    /\ pc = "done"
    /\ model = "one_hand_liquid_contact"
    /\ scenario = "high"
    /\ args.Yderm = Rat(1, 10)
    /\ Overridden = {}
    /\ Has(self["outputs"], "LADD")

\* C15: once mass_balance has its inputs, Q and k are those of the scenario
\* table whatever Q and k were passed: (3000, 0.5) indoor typical,
\* (500, 0.1) indoor worst-case, (237600, 0.5) outdoor typical,
\* (26400 * (60 * vz / 5280)^3, 0.1) outdoor worst-case, which is 3,300,000
\* for vz = 440; under 'user' they are the values passed.
C15_VentilationTable ==
    (model = "mass_balance" /\ "inputs" \in DOMAIN self) =>
        LET Q == Get(self["inputs"], "Q")
            k == Get(self["inputs"], "k")
            s == self["scenario"]
        IN  /\ s = "indoor,typical" => Q = Num(3000) /\ k = Rat(1, 2)
            /\ s = "indoor,worst-case" => Q = Num(500) /\ k = Rat(1, 10)
            /\ s = "outdoor,typical" => Q = Num(237600) /\ k = Rat(1, 2)
            /\ s = "outdoor,worst-case" =>
                  /\ Q = RQuot(RMul(Num(26400), RPow3(RMul(Num(60), args.vz))),
                               RPow3(Num(5280)))
                  /\ args.vz = Num(440) => Q = Num(3300000)
                  /\ k = Rat(1, 10)
            /\ s = "user" => Q = args.Q /\ k = args.k

\* an outdoor worst-case instance built with a Q of the caller's own
C15_Witness ==
    /\ pc = "done"
    /\ model = "mass_balance"
    /\ self["scenario"] = "outdoor,worst-case"
    /\ args.vz = Num(440)
    /\ args.Q # Num(3000)
    /\ Get(self["inputs"], "Q") = Num(3300000)

\* the rule of the defaulted solids fraction, for the instance just returned
SolidsFractionRule ==
    /\ Has(self["inputs"], "Ys")
    /\ Get(self["inputs"], "Ys") =
          (IF IsNone(args.Ys)
           THEN RMin(RQuot(args.Ymist, args.Ysf), Num(1))
           ELSE args.Ys)
    /\ (IsNone(args.Ys) /\ args.Ymist = Rat(9, 10) /\ args.Ysf = Rat(1, 4))
          => Get(self["inputs"], "Ys") = Num(1)
    /\ Get(self["outputs"], "Cm")
          = RMul(Get(self["inputs"], "KCk"), Get(self["inputs"], "Ys"))

\* C16 as claimed: every instance of the three spray-coating models and of
\* uv_roll_coating records Ys = min(Ymist / Ysf, 1) when Ys was not passed
\* and the Ys passed otherwise, and uses it for Cm.
C16_SolidsFractionAllFour ==
    (/\ pc = "done"
     /\ model \in {"automobile_oem_spray_coating",
                    "automobile_refinish_spray_coating",
                    "automobile_spray_coating", "uv_roll_coating"})
    => SolidsFractionRule

\* C16 as amended: every instance of automobile_oem_spray_coating,
\* automobile_refinish_spray_coating and uv_roll_coating records
\* Ys = min(Ymist / Ysf, 1) when Ys was not passed and the Ys passed (0 too)
\* otherwise, and uses it for Cm; an instance of automobile_spray_coating
\* records no Ys and has Cm = KCk.
C16_SolidsFraction ==
    /\ (/\ pc = "done"
        /\ model \in {"automobile_oem_spray_coating",
                       "automobile_refinish_spray_coating", "uv_roll_coating"})
       => SolidsFractionRule
    /\ (pc = "done" /\ model = "automobile_spray_coating")
       => /\ Keys(self["inputs"]) \cap {"Ys", "Ymist", "Ysf"} = {}
          /\ Get(self["outputs"], "Cm") = Get(self["inputs"], "KCk")

\* an instance whose defaulted solids fraction is the quotient itself
C16_Witness ==
    /\ pc = "done"
    /\ model \in {"automobile_oem_spray_coating",
                   "automobile_refinish_spray_coating", "uv_roll_coating"}
    /\ IsNone(args.Ys)
    /\ ~IsZero(Get(self["inputs"], "Ys"))
    /\ Get(self["inputs"], "Ys") # Num(1)

C18_DoseRateVariant ==
    /\ (direct.route = "dermal" /\ {"Yderm", "FT"} \subseteq Keys(direct.kw)) =>
          direct.res = (IF Has(direct.kw, "SQu")
                        THEN Return(Num(620))            \* 3100 * 0.1 * 2
                        ELSE Return(Rat(2247, 10)))      \* 535 * 2.1 * 0.1 * 2
    /\ (direct.route = "inhalation" /\ direct.kw # EmptyDict
           /\ Keys(direct.kw) \cap {"S", "SQu"} = {}) =>
          direct.res = (IF Has(direct.kw, "Cm")
                        THEN Return(Num(150))            \* 15 * 1.25 * 8
                        ELSE Return(Rat(1431, 10000)))   \* 0.0477 * 2 * 0.5 * 3
    /\ pc = "done" =>
          LET V(n) == IF Has(self["inputs"], n) THEN Get(self["inputs"], n)
                      ELSE Get(self["outputs"], n)
              solids == model \in {"two_hand_solids_contact",
                                   "two_hand_container_surface_contact"}
          IN  IF model \in DermalModels
              THEN /\ Has(self["inputs"], "SQu") <=> solids
                   /\ Get(self["outputs"], "Dexp") =
                        (IF solids
                         THEN RMul(RMul(V("SQu"), V("Yderm")), V("FT"))
                         ELSE RMul(RMul(RMul(V("S"), V("Qu")), V("Yderm")), V("FT")))
              ELSE /\ Has(kwargs, "Cm") <=> model # "small_volume_solids_handling"
                   /\ Get(self["outputs"], "I") =
                        (IF model = "small_volume_solids_handling"
                         THEN RMul(RMul(RMul(V("EF"), V("AH")), V("Ys")), V("Sd"))
                         ELSE RMul(RMul(V("Cm"), V("b")), V("h")))

\* potential_dose_rate was called with the parameters of both dermal variants
C18_Witness ==
    /\ direct.route = "dermal"
    /\ {"S", "Qu", "SQu", "Yderm", "FT"} \subseteq Keys(direct.kw)
    /\ direct.res = Return(Num(620))

\* C19: a call of potential_dose_rate with a route other than 'dermal' and
\* 'inhalation' fails with RouteException, whatever else is passed.
C19_RouteError ==
    (direct # NoDirect /\ direct.route \notin {"dermal", "inhalation"}) =>
        direct.res.exc.kind = RouteException

\* C20: the outputs of every returned instance follow from its inputs:
\* NW = NWexp * NS, LADD = (PDR * ED * EY) / (BW * ATc * 365),
\* ADD = (PDR * ED * EY) / (BW * AT * 365) and APDR = PDR / BW, PDR being the
\* instance's Dexp or I and the other values those stored in inputs.
C20_SharedArithmetic ==
    pc = "done" =>
        LET In(n) == Get(self["inputs"], n)
            Out(n) == Get(self["outputs"], n)
            PDR == Out(IF self["route"] = "dermal" THEN "Dexp" ELSE "I")
            exposure == RMul(RMul(PDR, In("ED")), In("EY"))
        IN  /\ Out("NW") = RMul(In("NWexp"), In("NS"))
            /\ ~IsZero(In("BW")) /\ ~IsZero(In("ATc")) /\ ~IsZero(In("AT"))
            /\ Out("LADD") = RQuot(exposure, RMul(RMul(In("BW"), In("ATc")), Num(365)))
            /\ Out("ADD") = RQuot(exposure, RMul(RMul(In("BW"), In("AT")), Num(365)))
            /\ Out("APDR") = RQuot(PDR, In("BW"))

\* an instance with a body weight of the caller's own and a dose above zero
C20_Witness ==
    /\ pc = "done"
    /\ args.BW # Num(70)
    /\ Get(self["inputs"], "AT") # Get(self["inputs"], "ATc")
    /\ ~IsZero(Get(self["outputs"], "LADD"))

\* the checks of the family constructor and of the model's own statements,
\* as the construction in progress evaluates them
FamilyChecks == ExecStmts(EmptyDict, family_init(model, args))

ModelChecks ==
    ExecStmts(FamilyChecks.kwargs,
              model_params(model, args, normalize(scenario), route_of(model)))

\* C21: the steps of a construction run in a fixed order.  The family
\* parameters are checked first: a construction whose ED is out of range ends
\* with the bounds failure for ED whatever its scenario is, and a construction
\* that got past the family constructor has passed every family check.  The
\* scenario test comes next: model-specific statements run only for an
\* accepted scenario.  Inputs are frozen only after every model-specific
\* check has passed, and no key of outputs is in kwargs before inputs is
\* frozen.
C21_StepOrder ==
    /\ (Ended /\ ~Within(args.ED, Num(0), Num(365))) =>
          /\ pc = "raised"
          /\ exc.at = "family_init"
          /\ exc.key = "ED"
          /\ exc.kind = BoundsException
    /\ (pc \notin {"idle", "family_init"} /\ exc.at # "family_init") =>
          ~Raised(FamilyChecks)
    /\ (pc \in {"params", "freeze", "compute", "collect", "rename", "done"}
          \/ exc.at \in {"params", "compute"}) =>
          scenario_accepted(model, scenario, self["scenario"])
    /\ (pc \in {"freeze", "compute", "collect", "rename", "done"}
          \/ exc.at = "compute") => ~Raised(ModelChecks)
    /\ exc.at = "family_init" => Raised(FamilyChecks)
    /\ exc.at = "scenario_test" =>
          ~scenario_accepted(model, scenario, normalize(scenario))
    /\ exc.at = "params" => Raised(ModelChecks)
    /\ "inputs" \in DOMAIN self =>
          /\ ~Raised(FamilyChecks)
          /\ ~Raised(ModelChecks)
          /\ Keys(self["inputs"]) \cap Range(OutputSteps(model)) = {}
    /\ Keys(kwargs) \cap Range(OutputSteps(model)) # {} =>
          /\ "inputs" \in DOMAIN self
          /\ pc \in {"collect", "rename", "done"} \/ exc.at = "compute"

\* a construction with an ED above 365 and a scenario the model does not list
\* has ended
C21_Witness ==
    /\ pc = "raised"
    /\ RLt(Num(365), args.ED)
    /\ ~scenario_accepted(model, scenario, normalize(scenario))

\* PDR * ED * EY / (BW * t * days_per_year) over the values of the instance
AveragedOver(t) ==
    RQuot(RMul(RMul(Get(kwargs, "PDR"), Get(self["inputs"], "ED")),
               Get(self["inputs"], "EY")),
          RMul(RMul(Get(self["inputs"], "BW"), t), Num(days_per_year)))

ScenarioControlled(m) ==
    CASE m \in {"one_hand_liquid_contact", "two_hand_liquid_contact",
                "two_hand_liquid_immersion"} -> {"Qu"}
      [] m = "user_defined_dermal" -> {"S", "Qu"}
      [] m \in {"two_hand_solids_contact", "two_hand_container_surface_contact"}
            -> {"SQu"}
      [] m = "small_volume_solids_handling" -> {"EF"}
      [] m = "mass_balance" -> {"Q", "k"}
      [] m \in {"automobile_oem_spray_coating", "automobile_refinish_spray_coating",
                "automobile_spray_coating", "uv_roll_coating"} -> {"KCk"}
      [] OTHER -> {}

\* inputs and outputs of the instance that m(scenario=scen, **a) returns
Constructed(m, a, scen) ==
    LET f == ExecStmts(EmptyDict, family_init(m, a))
        p == ExecStmts(f.kwargs, model_params(m, a, scen, route_of(m)))
        frozen == Put(p.kwargs, "skips", Get(p.kwargs, "skips") \o p.kwargs.keys)
        c == ExecOutputs(m, frozen, OutputSteps(m))
        out == model_args(c.kwargs)
    IN  [inputs  |-> model_args(p.kwargs),
         raised  |-> Raised(c),
         outputs |-> IF Raised(c) THEN EmptyDict
                     ELSE Put(Pop(out, "PDR"), dose_rate_name(m), Get(out, "PDR"))]

\* the call in progress with its argument p put back to the reference value
WithReference(p) == [args EXCEPT ![p] = ReferenceArgs(model)[p]]

\* the reference call, with the wind speed of the call in progress
PresetCall ==
    [x \in DOMAIN args |-> IF x = "vz" THEN args[x] ELSE ReferenceArgs(model)[x]]

\* C23: for every parameter that the scenario controls (Qu; S and Qu in
\* user_defined_dermal; SQu; EF; Q and k; KCk), inputs holds the caller's
\* value verbatim under 'user'; under every other scenario inputs holds the
\* preset of the scenario, and inputs and outputs are those of the same call
\* made with the reference value of that parameter.
C23_ScenarioControlled ==
    "inputs" \in DOMAIN self =>
        \A p \in ScenarioControlled(model) :
            IF self["scenario"] = "user"
            THEN Get(self["inputs"], p) = args[p]
            ELSE /\ Get(self["inputs"], p) =
                       Get(Constructed(model, PresetCall, self["scenario"]).inputs, p)
                 /\ self["inputs"] =
                       Constructed(model, WithReference(p), self["scenario"]).inputs
                 /\ pc = "done" =>
                       self["outputs"] =
                           Constructed(model, WithReference(p), self["scenario"]).outputs
                 /\ exc.at = "compute" =>
                       Constructed(model, WithReference(p), self["scenario"]).raised

\* an instance built under a preset scenario from a call that passed another
\* value for the controlled parameter
C23_Witness ==
    /\ pc = "done"
    /\ self["scenario"] # "user"
    /\ \E p \in ScenarioControlled(model) :
           /\ args[p] # ReferenceArgs(model)[p]
           /\ Get(self["inputs"], p) # args[p]

\* the value of name in inputs
In(name) == Get(self["inputs"], name)

\* the value of name in outputs
Out(name) == Get(self["outputs"], name)

\* 1000000 * X * VP / 760 over the values of inputs
SaturationBound == RQuot(RMul(RMul(Num(1000000), In("X")), In("VP")), Num(760))

\* C25: a mass_balance instance has Cv = min(170000*T*G / (MW*Q*k),
\* 1000000*X*VP / 760) over the values of its inputs, so Cv never exceeds the
\* saturation bound, Cm = Cv*MW / Vm and I = Cm*b*h.
C25_MassBalanceOutputs ==
    (pc = "done" /\ model = "mass_balance") =>
        LET generation == RQuot(RMul(RMul(Num(170000), In("T")), In("G")),
                                RMul(RMul(In("MW"), In("Q")), In("k")))
        IN  /\ Out("Cv") \in {generation, SaturationBound}
            /\ ~RLt(generation, Out("Cv"))
            /\ ~RLt(SaturationBound, Out("Cv"))
            /\ Out("Cm") = RQuot(RMul(Out("Cv"), In("MW")), In("Vm"))
            /\ Out("I") = RMul(RMul(Out("Cm"), In("b")), In("h"))

\* a mass_balance instance whose Cv is the saturation bound, the generation
\* term being larger
C25_Witness ==
    /\ pc = "done"
    /\ model = "mass_balance"
    /\ Out("Cv") = SaturationBound
    /\ RLt(SaturationBound,
           RQuot(RMul(RMul(Num(170000), In("T")), In("G")),
                 RMul(RMul(In("MW"), In("Q")), In("k"))))

\* C24: uv_roll_coating takes KCk from the table 'low end of range': 0.04,
\* 'high end of range': 0.26 or, under 'user', from the caller: a call with
\* scenario 'user' and arguments that pass every check and let the arithmetic
\* finish returns an instance whose inputs hold the caller's KCk.
C24_UVRollCoatingUser ==
    (/\ Ended
     /\ model = "uv_roll_coating"
     /\ normalize(scenario) \in {"low end of range", "high end of range", "user"}
     /\ ~Raised(FamilyChecks)
     /\ ~Raised(ModelChecks)
     /\ exc.at # "compute")
    => /\ pc = "done"
       /\ In("KCk") = (CASE self["scenario"] = "low end of range" -> Rat(4, 100)
                         [] self["scenario"] = "high end of range" -> Rat(26, 100)
                         [] self["scenario"] = "user" -> args.KCk)

\* C26: a pel_limiting_vapors instance has
\* Cv = min(Cvk*(VP*Ys/MW) / (VPpel*Ypel/MWpel), 1000000*X*VP / 760) where
\* Ypel is the weight fraction the caller passed, and the Ypel of inputs is
\* that value.
C26_PelVaporsYpel ==
    (pc = "done" /\ model = "pel_limiting_vapors") =>
        LET ratio == RQuot(RMul(args.Cvk, RQuot(RMul(args.VP, args.Ys), args.MW)),
                           RQuot(RMul(args.VPpel, args.Ypel), args.MWpel))
        IN  /\ In("Ypel") = args.Ypel
            /\ Out("Cv") \in {ratio, SaturationBound}
            /\ ~RLt(ratio, Out("Cv"))
            /\ ~RLt(SaturationBound, Out("Cv"))

\* the mass concentration that user_defined_inhalation works with: the Cm
\* passed, or Cv * MW / Vm * Ys when none was passed
GivenCm ==
    IF IsNone(args.Cm)
    THEN RMul(RQuot(RMul(args.Cv, args.MW), args.Vm), args.Ys)
    ELSE args.Cm

\* C27: in user_defined_inhalation a Cm that was passed (0 included) is used
\* as given, I = Cm*b*h, and Cv, MW, Vm and Ys affect no output; with no Cm
\* passed, Cm = Cv*MW/Vm*Ys; in both cases a construction that reaches the
\* check of Cm with a negative Cm fails with BoundsException.
C27_UserDefinedCm ==
    model = "user_defined_inhalation" =>
        /\ pc = "done" =>
              /\ In("Cm") = GivenCm
              /\ ~RLt(In("Cm"), Num(0))
              /\ Out("I") = RMul(RMul(In("Cm"), In("b")), In("h"))
              /\ ~IsNone(args.Cm) =>
                    \A p \in {"Cv", "MW", "Vm", "Ys"} :
                        self["outputs"] =
                            Constructed(model, WithReference(p), "user").outputs
        /\ (/\ Ended
            /\ ~Raised(FamilyChecks)
            /\ scenario = "user"
            /\ ~RLt(args.Vm, Num(0))
            /\ Within(args.Ys, Num(0), Num(1))
            /\ IsNone(args.Cm) => ~IsZero(args.Vm)
            /\ RLt(GivenCm, Num(0)))
           => /\ pc = "raised"
              /\ exc.key = "Cm"
              /\ exc.kind = BoundsException

\* C30: inputs and outputs of an instance share no key.  Once inputs is
\* frozen every key that kwargs held at that moment is on the skip list, so
\* no name of inputs (Cm and Cv of user_defined_inhalation included) is a key
\* of outputs, and no name computed after the freeze is a key of inputs.
C30_DisjointKeys ==
    /\ "inputs" \in DOMAIN self =>
          /\ Keys(self["inputs"]) \subseteq Range(Get(kwargs, "skips"))
          /\ Keys(self["inputs"]) \cap
                (Range(OutputSteps(model)) \cup {"Dexp", "I"}) = {}
          /\ Keys(self["inputs"]) # {}
    /\ "outputs" \in DOMAIN self =>
          /\ Keys(self["inputs"]) \cap Keys(self["outputs"]) = {}
          /\ Keys(self["outputs"]) \subseteq
                Range(OutputSteps(model)) \cup {"Dexp", "I"}
    /\ (pc = "done" /\ model = "user_defined_inhalation") =>
          /\ {"Cm", "Cv"} \subseteq Keys(self["inputs"])
          /\ {"Cm", "Cv"} \cap Keys(self["outputs"]) = {}

\* a user_defined_inhalation instance has both dictionaries
C30_Witness ==
    /\ pc = "done"
    /\ model = "user_defined_inhalation"
    /\ Keys(self["inputs"]) # {}
    /\ Keys(self["outputs"]) # {}

\* C28: the unit table has an entry for every name that is a key of inputs
\* or of outputs of an instance, so the text report of an instance never
\* fails on an unknown name.
C28_UnitsCoverNames ==
    /\ pc = "done" =>
          Keys(self["inputs"]) \cup Keys(self["outputs"]) \subseteq DOMAIN units
    /\ report.pc = "text" => report.res.exc.kind # KeyError

\* name_i: the index goes before the extension of the name
Numbered(name, i) ==
    IF Len(name) > 4 /\ SubSeq(name, Len(name) - 3, Len(name)) = ".txt"
    THEN SubSeq(name, 1, Len(name) - 4) \o "_" \o str_int(i) \o ".txt"
    ELSE name \o "_" \o str_int(i)

\* C29: checkfile ends for every file name and every listing: its loop is at
\* index i only after i - 1 different candidates were found in the listing,
\* so i is at most the size of the listing plus one.  The path it returns is
\* in the working directory and names no entry of it: the name itself when
\* that is free, otherwise the first of name_1, name_2, ... (extension kept)
\* that the listing lacks.  A file_report with check_file=True leaves every
\* file that was there before in place and adds one new name.
C29_Checkfile ==
    /\ report.pc = "while" =>
          /\ report.index <= Cardinality(report.ls) + 1
          /\ report.ls = files
          /\ \A j \in 1..(report.index - 2) :
                Numbered(report.file_name, j) \in report.ls
    /\ (report.pc = "returned" \/ (report.pc = "written" /\ report.check_file)) =>
          LET name == path_basename(report.path)
          IN  /\ report.path = path_join(getcwd, name)
              /\ name \notin report.before
              /\ IF report.file_name \notin report.before
                 THEN name = report.file_name
                 ELSE \E i \in 1..Cardinality(report.before) :
                         /\ name = Numbered(report.file_name, i)
                         /\ \A j \in 1..(i - 1) :
                               Numbered(report.file_name, j) \in report.before
    /\ report.pc = "returned" => files = report.before
    /\ (report.pc = "written" /\ report.check_file) =>
          /\ files = report.before \cup {path_basename(report.path)}
          /\ Cardinality(files) = Cardinality(report.before) + 1

\* a report was written under name_2 because the name and name_1 were taken
C29_Witness ==
    /\ report.pc = "written"
    /\ report.check_file
    /\ report.file_name \in report.before
    /\ path_basename(report.path) = Numbered(report.file_name, 2)

====
